---- MODULE Spec2Model ----
(***************************************************************************)
(* Model of the speech-to-text service: the Whisper library adapter        *)
(* (infrastructure/whisper/library_adapter.py), its context lock, health   *)
(* check and recovery, the direct and chunked transcription paths, the     *)
(* service wrapper transcribe_from_url (services/transcription.py), the    *)
(* adapter's construction and teardown, its chunk files, _merge_chunks and *)
(* _validate_audio, the job states of the async service                    *)
(* (services/async_transcription.py), the application's lifespan and       *)
(* health endpoint (cmd/api/main.py, health_routes.py), the adapter        *)
(* singleton and the transcription executor.                               *)
(***************************************************************************)
EXTENDS Integers, Sequences, FiniteSets, TLC

(***************************************************************************)
(* Bounds of the model.                                                    *)
(***************************************************************************)
\* threads calling _call_whisper_full directly (SpecGuard)
NThreads == 2
\* guarded calls each thread makes (SpecGuard)
MaxCalls == 2
\* times the context handle is forced to null from outside
MaxForce == 1

Threads == 1..NThreads

VARIABLES
    lock,       \* self._lock: 0 when free, else the thread holding it
    ctx,        \* self.ctx: 0 is NULL/None, n > 0 is the n-th context created
    lib,        \* self.lib: TRUE when the library handle is loaded
    nctx,       \* number of contexts whisper_init_from_file has returned
    freed,      \* contexts passed to whisper_free
    forced,     \* number of times the handle was forced to null
    pc,         \* position of each thread
    calls,      \* guarded calls started by each thread
    reinits,    \* _reinitialize_context invocations in the current call
    gres,       \* how the last guarded call left: "ok", "infer_error", "recovery_error"
    gtext,      \* text returned by the last guarded call
    chunkEnabled, \* settings.whisper_chunk_enabled
    cs,         \* transcribe_from_url: position of each request's coroutine
    useTimeout, \* transcribe_from_url: the use_timeout argument
    dur,        \* transcribe: its local duration (0 when the probe failed) until used
    tmp,        \* the request's temp file exists on disk
    queue,      \* work queue of the transcription executor
    path,       \* path transcribe took: "none", "direct", "chunked"
    akind,      \* content of the file the direct path is about to decode
    tres,       \* how transcribe ended: "none", "text" or the error raised
    ttext,      \* text returned by transcribe
    clist,      \* chunk_files returned by _split_audio (window indices)
    ci,         \* index in clist of the chunk being transcribed
    ctexts,     \* chunk_texts collected so far
    cfiles,     \* chunk files of the request present on disk
    prober,     \* whether ffprobe can be run: "runnable" or "missing"
    splitRun,   \* a call of _split_audio under given settings (SpecChunking)
    art,        \* calls of transcribe on given paths and the chunk files on disk (SpecArtifacts)
    mrg,        \* a call of _merge_chunks on given texts (SpecMerge)
    aud,        \* a call of _validate_audio on a given buffer (SpecAudio)
    build,      \* construction and teardown of the adapter (SpecLifecycle)
    jobs,       \* the job store and the runs of the async service (SpecJobs)
    app,        \* lifespan of the FastAPI application and app.state (SpecStartup)
    single,     \* the module global _whisper_library_adapter and its callers (SpecSingleton)
    segs        \* result segments held by the whisper context (SpecReadout)

gvars == <<lock, ctx, lib, nctx, freed, forced, pc, calls, reinits, gres, gtext>>

svars == <<chunkEnabled, cs, useTimeout, dur, tmp, queue, path, akind,
           tres, ttext, clist, ci, ctexts, cfiles, prober, splitRun,
           art, mrg, aud, build, jobs, app, single, segs>>

vars == <<gvars, svars>>

\* texts the native engine may produce for one audio buffer (words)
NativeTexts == {<<>>, <<"a", "b">>}

(***************************************************************************)
(* Settings and constants (core/config.py, core/constants.py).             *)
(***************************************************************************)
\* settings.whisper_chunk_duration, seconds
ChunkDuration == 30
\* settings.whisper_chunk_overlap, seconds
ChunkOverlap == 3
\* MIN_CHUNK_DURATION, seconds
MinChunkDuration == 2
\* cap on the number of windows in _split_audio
MaxChunks == 1000
\* max_workers of the transcription ThreadPoolExecutor
MaxWorkers == 2
\* words compared at a seam by _merge_chunks
MergeWindow == 5

\* durations (seconds) of the audio files requests carry
Durations == {30, 31}

\* text recorded for a chunk whose transcription raised
Sentinel == <<"[inaudible]">>

\* no clipping: always the first argument
Min2First(a, b) == a

Min2(a, b) == IF a < b THEN a ELSE b

(***************************************************************************)
(* get_audio_duration and the branch of transcribe.                        *)
(***************************************************************************)
\* what running ffprobe can give
ProbeOutcomes == {"ok", "nonzero", "empty", "unparsable", "timeout", "notrunnable"}

\* get_audio_duration: the duration, a TranscriptionError, or the OSError of
\* subprocess.run that none of its except clauses catches
GetAudioDuration(o, d) ==
    CASE o = "ok" -> [kind |-> "ok", d |-> d]
      [] o \in {"nonzero", "empty", "unparsable", "timeout"}
              -> [kind |-> "TranscriptionError", d |-> 0]
      [] OTHER -> [kind |-> "OSError", d |-> 0]

\* branch taken for audio exactly at the threshold as well
UseChunkingAtThreshold(enabled, d) == enabled /\ d >= ChunkDuration

\* settings.whisper_chunk_enabled and duration > settings.whisper_chunk_duration
UseChunking(enabled, d) == enabled /\ d > ChunkDuration

(***************************************************************************)
(* _split_audio: window boundaries, short-tail merge, materialised windows *)
(***************************************************************************)
\* one iteration with the next window starting where the last one ended
SplitIterNoOverlap(st, D, L, O) ==
    IF ~(st.start < D) THEN [st EXCEPT !.status = "done"]
    ELSE LET end == Min2(st.start + L, D)
             cs2 == Append(st.chunks, <<st.start, end>>)
         IN  IF end >= D THEN [st EXCEPT !.chunks = cs2, !.status = "done"]
             ELSE IF Len(cs2) > MaxChunks THEN [st EXCEPT !.chunks = cs2, !.status = "err"]
             ELSE [start |-> end, chunks |-> cs2, status |-> "run"]

\* the loop body without the "would not advance" break
SplitIterNoGuard(st, D, L, O) ==
    IF ~(st.start < D) THEN [st EXCEPT !.status = "done"]
    ELSE LET end == Min2(st.start + L, D)
             cs2 == Append(st.chunks, <<st.start, end>>)
         IN  IF end >= D THEN [st EXCEPT !.chunks = cs2, !.status = "done"]
             ELSE IF Len(cs2) > MaxChunks
                  THEN [start |-> end - O, chunks |-> cs2, status |-> "err"]
             ELSE [start |-> end - O, chunks |-> cs2, status |-> "run"]

\* one evaluation of the loop condition and body of "while start < duration"
\* in _split_audio; status tells whether the loop goes on, has ended, or raised
SplitIter(st, D, L, O) ==
    IF ~(st.start < D) THEN [st EXCEPT !.status = "done"]
    ELSE LET end == Min2(st.start + L, D)
             cs2 == Append(st.chunks, <<st.start, end>>)
         IN  IF end >= D THEN [st EXCEPT !.chunks = cs2, !.status = "done"]
             ELSE IF end - O <= st.start THEN [st EXCEPT !.chunks = cs2, !.status = "done"]
             ELSE IF Len(cs2) > MaxChunks
                  THEN [start |-> end - O, chunks |-> cs2, status |-> "err"]
             ELSE [start |-> end - O, chunks |-> cs2, status |-> "run"]

RECURSIVE SplitLoop(_, _, _, _, _)
\* the while loop of _split_audio, run to its end
SplitLoop(start, chunks, D, L, O) ==
    LET st == SplitIter([start |-> start, chunks |-> chunks, status |-> "run"], D, L, O)
    IN  IF st.status = "run" THEN SplitLoop(st.start, st.chunks, D, L, O)
        ELSE [err |-> st.status = "err", chunks |-> st.chunks]

\* the short final window is dropped without extending the previous one
MergeShortTailDrop(chunks) ==
    LET n == Len(chunks) IN
    IF n > 1 /\ chunks[n][2] - chunks[n][1] < MinChunkDuration
    THEN SubSeq(chunks, 1, n - 1)
    ELSE chunks

\* a final window shorter than MIN_CHUNK_DURATION is merged into the previous
MergeShortTail(chunks) ==
    LET n == Len(chunks) IN
    IF n > 1 /\ chunks[n][2] - chunks[n][1] < MinChunkDuration
    THEN [i \in 1..(n - 1) |->
            IF i = n - 1 THEN <<chunks[n - 1][1], chunks[n][2]>> ELSE chunks[i]]
    ELSE chunks

\* windows computed by _split_audio before files are written
SplitWindows(D, L, O) ==
    LET r == SplitLoop(0, <<>>, D, L, O) IN
    [err |-> r.err, chunks |-> IF r.err THEN <<>> ELSE MergeShortTail(r.chunks)]

RECURSIVE KeptFrom(_, _)
\* indices of the windows that get a chunk file: a window shorter than
\* MIN_CHUNK_DURATION is skipped unless it is the last
KeptFrom(chunks, i) ==
    IF i > Len(chunks) THEN <<>>
    ELSE IF chunks[i][2] - chunks[i][1] < MinChunkDuration /\ i < Len(chunks)
         THEN KeptFrom(chunks, i + 1)
         ELSE <<i>> \o KeptFrom(chunks, i + 1)

(***************************************************************************)
(* _merge_chunks.  A text is its sequence of words.                        *)
(***************************************************************************)
\* the smallest matching j instead of the largest
OverlapStartFirst(prev, curr) ==
    LET k == Min2(MergeWindow, Min2(Len(prev), Len(curr)))
        js == {j \in 1..k : SubSeq(prev, Len(prev) - j + 1, Len(prev)) = SubSeq(curr, 1, j)}
    IN  IF js = {} THEN 0 ELSE CHOOSE j \in js : \A m \in js : j <= m

\* largest j <= min(5, |prev|, |curr|) with the last j words of prev equal to
\* the first j words of curr, 0 when there is none
OverlapStart(prev, curr) ==
    LET k == Min2(MergeWindow, Min2(Len(prev), Len(curr)))
        js == {j \in 1..k : SubSeq(prev, Len(prev) - j + 1, Len(prev)) = SubSeq(curr, 1, j)}
    IN  IF js = {} THEN 0 ELSE CHOOSE j \in js : \A m \in js : m <= j

RECURSIVE MergeFold(_, _, _)
\* the seam loop: parts is merged_parts, valid is valid_texts
MergeFold(parts, valid, i) ==
    IF i > Len(valid) THEN parts
    ELSE LET prev == parts[Len(parts)]
             curr == valid[i]
         IN  IF Len(prev) < 2 \/ Len(curr) < 2
             THEN MergeFold(Append(parts, curr), valid, i + 1)
             ELSE LET j == OverlapStart(prev, curr)
                      rest == SubSeq(curr, j + 1, Len(curr))
                  IN  IF rest = <<>> THEN MergeFold(parts, valid, i + 1)
                      ELSE MergeFold(Append(parts, rest), valid, i + 1)

RECURSIVE Flatten(_)
\* " ".join(merged_parts)
Flatten(parts) == IF parts = <<>> THEN <<>> ELSE Head(parts) \o Flatten(Tail(parts))

\* _merge_chunks
MergeChunks(texts) ==
    LET valid == SelectSeq(texts, LAMBDA x : x # <<>> /\ x # Sentinel) IN
    IF valid = <<>> THEN <<>>
    ELSE IF Len(valid) = 1 THEN valid[1]
    ELSE Flatten(MergeFold(<<valid[1]>>, valid, 2))

(***************************************************************************)
(* _load_audio.                                                            *)
(***************************************************************************)
\* what decoding a file can give
AudioKinds == {"speech", "silent", "noise", "empty", "undecodable"}

\* _validate_audio: 0 samples, peak below 0.01 and deviation below 0.001 are
\* invalid (an undecodable file never gets there)
ValidateAudio(k) ==
    CASE k = "speech" -> "valid"
      [] k \in {"silent", "noise", "empty"} -> "invalid"
      [] OTHER -> "none"

\* _load_audio raises for an undecodable file and for 0 samples; a buffer that
\* fails _validate_audio is only logged and is returned like a valid one
LoadAudio(k) ==
    CASE k = "undecodable" -> "load_error"
      [] k = "empty" -> "load_error"
      [] OTHER -> "loaded"

(***************************************************************************)
(* threading.Lock behind "with self._lock" (_call_whisper_full).           *)
(***************************************************************************)
\* a lock that never blocks
LockFreeNoBlock(l) == TRUE

\* Lock.acquire() proceeds only when no thread holds the lock
LockFree(l) == l = 0

\* explicit release on the success path only, none on an inference error
LockAfterExitNoFinally(t, kind) == IF kind = "infer_error" THEN t ELSE 0

\* recovery error raised without leaving the with block
LockAfterExitRecoveryHeld(t, kind) == IF kind = "recovery_error" THEN t ELSE 0

\* __exit__ of the with block releases the lock on return and on raise
LockAfterExit(t, kind) == 0

(***************************************************************************)
(* _check_context_health, _reinitialize_context, _initialize_context.      *)
(***************************************************************************)
\* health check that only looks at the library handle
CheckContextHealthLibOnly(c, l) == l

\* _check_context_health: both self.ctx and self.lib must be set
CheckContextHealth(c, l) == c # 0 /\ l

\* recovery that keeps the stale handle when initialisation fails
CtxAfterFailedInitStale(old) == old

\* self.ctx = None before _initialize_context; a failed init leaves it None
CtxAfterFailedInit(old) == 0

\* acquire the context lock
Acquire(t) ==
    /\ pc[t] = "acquire"
    /\ LockFree(lock)
    /\ lock' = t
    /\ pc' = [pc EXCEPT ![t] = "health"]
    /\ UNCHANGED <<ctx, lib, nctx, freed, forced, calls, reinits, gres, gtext, svars>>

\* if not self._check_context_health(): ... else fall through to inference
HealthCheck(t) ==
    /\ pc[t] = "health"
    /\ pc' = [pc EXCEPT ![t] = IF CheckContextHealth(ctx, lib) THEN "infer" ELSE "reinit"]
    /\ UNCHANGED <<lock, ctx, lib, nctx, freed, forced, calls, reinits, gres, gtext, svars>>

\* _reinitialize_context: free the old context, null the handle, init again;
\* ModelInitError becomes TranscriptionError("Context recovery failed"), which
\* leaves the with block
Reinit(t) ==
    /\ pc[t] = "reinit"
    /\ reinits' = [reinits EXCEPT ![t] = @ + 1]
    /\ freed' = IF ctx # 0 /\ lib THEN freed \cup {ctx} ELSE freed
    /\ \E initOk \in BOOLEAN :
         IF initOk /\ lib
         THEN /\ ctx' = nctx + 1
              /\ nctx' = nctx + 1
              /\ pc' = [pc EXCEPT ![t] = "infer"]
              /\ UNCHANGED <<lock, gres, gtext>>
         ELSE /\ ctx' = CtxAfterFailedInit(ctx)
              /\ nctx' = nctx
              /\ pc' = [pc EXCEPT ![t] = "ret"]
              /\ lock' = LockAfterExit(t, "recovery_error")
              /\ gres' = [gres EXCEPT ![t] = "recovery_error"]
              /\ gtext' = [gtext EXCEPT ![t] = <<>>]
    /\ UNCHANGED <<lib, forced, calls, svars>>

\* _call_whisper_full_unsafe returns: whisper_full gave 0 and the segments
\* were read, or it gave an error code / raised
NativeReturn(t) ==
    /\ pc[t] = "infer"
    /\ \E ok \in BOOLEAN, txt \in NativeTexts :
         /\ gres' = [gres EXCEPT ![t] = IF ok THEN "ok" ELSE "infer_error"]
         /\ gtext' = [gtext EXCEPT ![t] = IF ok THEN txt ELSE <<>>]
         /\ lock' = LockAfterExit(t, IF ok THEN "ok" ELSE "infer_error")
    /\ pc' = [pc EXCEPT ![t] = "ret"]
    /\ UNCHANGED <<ctx, lib, nctx, freed, forced, calls, reinits, svars>>

\* the context handle is forced to None between calls (tests: adapter.ctx = None)
ForceCtxNull ==
    /\ lock = 0
    /\ ctx # 0
    /\ forced < MaxForce
    /\ ctx' = 0
    /\ forced' = forced + 1
    /\ UNCHANGED <<lock, lib, nctx, freed, pc, calls, reinits, gres, gtext, svars>>

\* the library handle is forced to None between calls (tests: adapter.lib = None)
ForceLibNull ==
    /\ lock = 0
    /\ lib
    /\ forced < MaxForce
    /\ lib' = FALSE
    /\ forced' = forced + 1
    /\ UNCHANGED <<lock, ctx, nctx, freed, pc, calls, reinits, gres, gtext, svars>>

(***************************************************************************)
(* transcribe, _transcribe_direct, _transcribe_chunked (worker thread).    *)
(***************************************************************************)
\* requests handled by the service (Spec)
NReq == 2
Reqs == 1..NReq

\* adapter state, per-call state of the guard, settings and environment
adapterv == <<lock, ctx, lib, nctx, freed, forced>>
callv == <<calls, reinits, gres, gtext>>
\* state of the other specifications
otherv == <<art, mrg, aud, build, jobs, app, single, segs>>
envv == <<chunkEnabled, prober, splitRun, otherv>>

\* the exception class behind each way transcribe can fail: every raise in
\* the adapter is "raise TranscriptionError(...)", told apart by its message
ErrorClass(e) ==
    CASE e \in {"not_found", "transcription_failed", "chunked_failed",
                "load_error", "infer_error", "recovery_error"} -> "TranscriptionError"
      [] OTHER -> "none"

\* requests whose transcribe call is executing in a worker thread
Running ==
    {r \in DOMAIN pc :
        pc[r] \in {"begin", "load", "acquire", "health", "reinit", "infer", "ret", "split"}}

\* transcribe: existence check, duration probe, choice of the path.  The file
\* has some duration d and content k; ffprobe, when it can be run, gives
\* outcome o.
TranscribeBegin(r) ==
    /\ pc[r] = "begin"
    /\ IF ~tmp[r]
       THEN /\ tres' = [tres EXCEPT ![r] = "not_found"]
            /\ pc' = [pc EXCEPT ![r] = "t_done"]
            /\ UNCHANGED <<dur, path, akind>>
       ELSE \E d \in Durations, o \in ProbeOutcomes, k \in AudioKinds :
            LET res == GetAudioDuration(o, d)
                duration == IF res.kind = "ok" THEN res.d ELSE 0
            IN  /\ (o = "notrunnable") <=> (prober = "missing")
                /\ IF res.kind = "OSError"
                   THEN /\ tres' = [tres EXCEPT ![r] = "transcription_failed"]
                        /\ pc' = [pc EXCEPT ![r] = "t_done"]
                        /\ UNCHANGED <<dur, path, akind>>
                   ELSE /\ dur' = [dur EXCEPT ![r] = duration]
                        /\ akind' = [akind EXCEPT ![r] =
                             IF UseChunking(chunkEnabled, duration) THEN "none" ELSE k]
                        /\ path' = [path EXCEPT ![r] =
                             IF UseChunking(chunkEnabled, duration) THEN "chunked" ELSE "direct"]
                        /\ pc' = [pc EXCEPT ![r] =
                             IF UseChunking(chunkEnabled, duration) THEN "split" ELSE "load"]
                        /\ UNCHANGED tres
    /\ UNCHANGED <<adapterv, callv, envv, cs, useTimeout, tmp, queue, ttext,
                   clist, ci, ctexts, cfiles>>

\* _split_audio: boundaries, then one ffmpeg run per kept window; n is the
\* number of chunk files written before ffmpeg fails (all of them: no failure).
\* With no chunk file the loop of _transcribe_chunked is empty and the merge
\* of no text is returned.
SplitAudio(r) ==
    /\ pc[r] = "split"
    /\ LET w == SplitWindows(dur[r], ChunkDuration, ChunkOverlap)
           kept == KeptFrom(w.chunks, 1)
       IN  \E n \in 0..Len(kept) :
            /\ (~tmp[r] \/ w.err) => n = 0
            /\ cfiles' = [cfiles EXCEPT ![r] = {kept[i] : i \in 1..n}]
            /\ IF w.err \/ n < Len(kept)
               THEN /\ tres' = [tres EXCEPT ![r] = "chunked_failed"]
                    /\ pc' = [pc EXCEPT ![r] = "t_done"]
                    /\ UNCHANGED <<clist, ci, ttext>>
               ELSE IF kept = <<>>
               THEN /\ tres' = [tres EXCEPT ![r] = "text"]
                    /\ ttext' = [ttext EXCEPT ![r] = MergeChunks(<<>>)]
                    /\ pc' = [pc EXCEPT ![r] = "t_done"]
                    /\ UNCHANGED <<clist, ci>>
               ELSE /\ clist' = [clist EXCEPT ![r] = kept]
                    /\ ci' = [ci EXCEPT ![r] = 1]
                    /\ pc' = [pc EXCEPT ![r] = "load"]
                    /\ UNCHANGED <<tres, ttext>>
    /\ dur' = [dur EXCEPT ![r] = 0]
    /\ UNCHANGED <<adapterv, callv, envv, cs, useTimeout, tmp, queue, path,
                   akind, ctexts>>

\* a failed chunk recorded as an empty text
ChunkTextOnErrorEmpty == <<>>

\* except Exception: chunk_texts.append("[inaudible]")
ChunkTextOnError == Sentinel

\* the newest text put in front
PrependChunkText(texts, x) == <<x>> \o texts

\* chunk_texts.append(...)
AppendChunkText(texts, x) == Append(texts, x)

\* the temp file survives a timeout
TmpAfterFinallyKeptOnTimeout(kind) == kind = "timeout"

\* finally: if temp_file_path.exists(): os.remove(temp_file_path)
TmpAfterFinally(kind) == FALSE

\* the end of one _transcribe_direct: on the direct path it is the result of
\* transcribe; in the chunk loop the text or the sentinel is appended, the
\* chunk file is removed, and after the last chunk the texts are merged
EndOfDirect(r, ok, txt, err) ==
    IF path[r] = "direct"
    THEN /\ tres' = [tres EXCEPT ![r] = IF ok THEN "text" ELSE err]
         /\ ttext' = [ttext EXCEPT ![r] = IF ok THEN txt ELSE <<>>]
         /\ pc' = [pc EXCEPT ![r] = "t_done"]
         /\ UNCHANGED <<ci, ctexts, cfiles>>
    ELSE LET texts == AppendChunkText(ctexts[r], IF ok THEN txt ELSE ChunkTextOnError) IN
         /\ ctexts' = [ctexts EXCEPT ![r] = texts]
         /\ cfiles' = [cfiles EXCEPT ![r] = @ \ {clist[r][ci[r]]}]
         /\ IF ci[r] < Len(clist[r])
            THEN /\ ci' = [ci EXCEPT ![r] = @ + 1]
                 /\ pc' = [pc EXCEPT ![r] = "load"]
                 /\ UNCHANGED <<tres, ttext>>
            ELSE /\ tres' = [tres EXCEPT ![r] = "text"]
                 /\ ttext' = [ttext EXCEPT ![r] = MergeChunks(texts)]
                 /\ pc' = [pc EXCEPT ![r] = "t_done"]
                 /\ UNCHANGED ci

\* _load_audio at the start of _transcribe_direct, on the request's file
\* (content akind, unless the file is gone) or on the current chunk file (any
\* content); a loaded buffer goes to _call_whisper_full
LoadStep(r) ==
    /\ pc[r] = "load"
    /\ \E k \in AudioKinds :
        /\ path[r] = "direct" => k = IF tmp[r] THEN akind[r] ELSE "undecodable"
        /\ IF LoadAudio(k) = "loaded"
           THEN /\ pc' = [pc EXCEPT ![r] = "acquire"]
                /\ UNCHANGED <<tres, ttext, ci, ctexts, cfiles>>
           ELSE EndOfDirect(r, FALSE, <<>>, "load_error")
    /\ akind' = [akind EXCEPT ![r] = "none"]
    /\ dur' = [dur EXCEPT ![r] = 0]
    /\ UNCHANGED <<adapterv, callv, envv, cs, useTimeout, tmp, queue, path, clist>>

\* _call_whisper_full has returned or raised into _transcribe_direct
GuardReturn(r) ==
    /\ pc[r] = "ret"
    /\ EndOfDirect(r, gres[r] = "ok", gtext[r], gres[r])
    /\ reinits' = [reinits EXCEPT ![r] = 0]
    /\ gres' = [gres EXCEPT ![r] = "none"]
    /\ gtext' = [gtext EXCEPT ![r] = <<>>]
    /\ UNCHANGED <<adapterv, calls, envv, cs, useTimeout, dur, tmp, queue, path,
                   akind, clist>>

(***************************************************************************)
(* TranscribeService.transcribe_from_url (coroutine on the event loop) and *)
(* the transcription executor.                                             *)
(***************************************************************************)
\* a request arrives: the coroutine starts and awaits the download
Request(r) ==
    /\ cs[r] = "new"
    /\ cs' = [cs EXCEPT ![r] = "download"]
    /\ UNCHANGED <<adapterv, pc, callv, envv, useTimeout, dur, tmp, queue, path,
                   akind, tres, ttext, clist, ci, ctexts, cfiles>>

\* the download ends; on success the duration is probed for the timeout and
\* _transcribe is handed to the executor; on failure the finally block runs
DownloadDone(r) ==
    /\ cs[r] = "download"
    /\ \E ok \in BOOLEAN, u \in BOOLEAN :
        IF ok
        THEN /\ tmp' = [tmp EXCEPT ![r] = TRUE]
             /\ useTimeout' = [useTimeout EXCEPT ![r] = u]
             /\ queue' = Append(queue, r)
             /\ pc' = [pc EXCEPT ![r] = "queued"]
             /\ cs' = [cs EXCEPT ![r] = "waiting"]
        ELSE /\ tmp' = [tmp EXCEPT ![r] = TmpAfterFinally("download_error")]
             /\ cs' = [cs EXCEPT ![r] = "raised"]
             /\ UNCHANGED <<queue, pc, useTimeout>>
    /\ UNCHANGED <<adapterv, callv, envv, dur, path, akind, tres, ttext, clist,
                   ci, ctexts, cfiles>>

\* an executor that starts a thread for every call handed to it
WorkerFreeAlways(running) == TRUE

\* ThreadPoolExecutor(max_workers=2): a call is taken from the work queue
\* only by one of the two worker threads when it is not running another call
WorkerFree(running) == Cardinality(running) < MaxWorkers

\* a free worker of the executor takes the oldest queued call of transcribe
JobStart(r) ==
    /\ queue # <<>>
    /\ Head(queue) = r
    /\ WorkerFree(Running)
    /\ queue' = Tail(queue)
    /\ pc' = [pc EXCEPT ![r] = "begin"]
    /\ UNCHANGED <<adapterv, callv, envv, cs, useTimeout, dur, tmp, path, akind,
                   tres, ttext, clist, ci, ctexts, cfiles>>

\* the locals of a finished call of transcribe are gone
ForgetLocals(r) ==
    /\ pc' = [pc EXCEPT ![r] = "none"]
    /\ useTimeout' = [useTimeout EXCEPT ![r] = FALSE]
    /\ dur' = [dur EXCEPT ![r] = 0]
    /\ path' = [path EXCEPT ![r] = "none"]
    /\ akind' = [akind EXCEPT ![r] = "none"]
    /\ tres' = [tres EXCEPT ![r] = "none"]
    /\ ttext' = [ttext EXCEPT ![r] = <<>>]
    /\ clist' = [clist EXCEPT ![r] = <<>>]
    /\ ci' = [ci EXCEPT ![r] = 0]
    /\ ctexts' = [ctexts EXCEPT ![r] = <<>>]

\* the awaited future completes: result returned or exception re-raised, and
\* the finally block removes the temp file
Deliver(r) ==
    /\ cs[r] = "waiting"
    /\ pc[r] = "t_done"
    /\ cs' = [cs EXCEPT ![r] = IF tres[r] = "text" THEN "returned" ELSE "raised"]
    /\ tmp' = [tmp EXCEPT ![r] = TmpAfterFinally(IF tres[r] = "text" THEN "return" ELSE "error")]
    /\ ForgetLocals(r)
    /\ UNCHANGED <<adapterv, callv, envv, queue, cfiles>>

\* a call of transcribe whose caller timed out ends: the worker thread drops
\* the result, nobody is waiting for it
Discard(r) ==
    /\ cs[r] = "timedout"
    /\ pc[r] = "t_done"
    /\ ForgetLocals(r)
    /\ UNCHANGED <<adapterv, callv, envv, cs, tmp, queue, cfiles>>

\* a timeout that takes the context lock away from the timed-out worker
LockAfterTimeoutForced(r, l) == IF l = r THEN 0 ELSE l

\* asyncio.wait_for gives up the wait; the worker thread is not touched
LockAfterTimeout(r, l) == l

\* asyncio.wait_for times out: a call still queued is cancelled, a running
\* one goes on in its worker thread; TimeoutError is raised and the finally
\* block removes the temp file
Timeout(r) ==
    /\ cs[r] = "waiting"
    /\ useTimeout[r]
    /\ pc[r] # "t_done"
    /\ cs' = [cs EXCEPT ![r] = "timedout"]
    /\ useTimeout' = [useTimeout EXCEPT ![r] = FALSE]
    /\ tmp' = [tmp EXCEPT ![r] = TmpAfterFinally("timeout")]
    /\ IF pc[r] = "queued"
       THEN /\ pc' = [pc EXCEPT ![r] = "none"]
            /\ queue' = SelectSeq(queue, LAMBDA x : x # r)
       ELSE UNCHANGED <<pc, queue>>
    /\ lock' = LockAfterTimeout(r, lock)
    /\ UNCHANGED <<ctx, lib, nctx, freed, forced, callv, envv, dur, path, akind,
                   tres, ttext, clist, ci, ctexts, cfiles>>

\* adapter constructed and service started, no request yet
Init ==
    /\ lock = 0
    /\ ctx = 1
    /\ lib = TRUE
    /\ nctx = 1
    /\ freed = {}
    /\ forced = 0
    /\ pc = [r \in Reqs |-> "none"]
    /\ calls = [r \in Reqs |-> 0]
    /\ reinits = [r \in Reqs |-> 0]
    /\ gres = [r \in Reqs |-> "none"]
    /\ gtext = [r \in Reqs |-> <<>>]
    /\ chunkEnabled \in BOOLEAN
    /\ prober \in {"runnable", "missing"}
    /\ cs = [r \in Reqs |-> "new"]
    /\ useTimeout = [r \in Reqs |-> FALSE]
    /\ dur = [r \in Reqs |-> 0]
    /\ tmp = [r \in Reqs |-> FALSE]
    /\ queue = <<>>
    /\ path = [r \in Reqs |-> "none"]
    /\ akind = [r \in Reqs |-> "none"]
    /\ tres = [r \in Reqs |-> "none"]
    /\ ttext = [r \in Reqs |-> <<>>]
    /\ clist = [r \in Reqs |-> <<>>]
    /\ ci = [r \in Reqs |-> 0]
    /\ ctexts = [r \in Reqs |-> <<>>]
    /\ cfiles = [r \in Reqs |-> {}]
    /\ splitRun = <<>>
    /\ art = <<>> /\ mrg = <<>> /\ aud = <<>> /\ build = "ready" /\ jobs = <<>>
    /\ app = <<>> /\ single = <<>> /\ segs = <<>>

Next ==
    \/ \E r \in Reqs : Request(r)
    \/ \E r \in Reqs : DownloadDone(r)
    \/ \E r \in Reqs : JobStart(r)
    \/ \E r \in Reqs : TranscribeBegin(r)
    \/ \E r \in Reqs : SplitAudio(r)
    \/ \E r \in Reqs : LoadStep(r)
    \/ \E r \in Reqs : Acquire(r)
    \/ \E r \in Reqs : HealthCheck(r)
    \/ \E r \in Reqs : Reinit(r)
    \/ \E r \in Reqs : NativeReturn(r)
    \/ \E r \in Reqs : GuardReturn(r)
    \/ \E r \in Reqs : Deliver(r)
    \/ \E r \in Reqs : Timeout(r)
    \/ \E r \in Reqs : Discard(r)
    \/ ForceCtxNull
    \/ ForceLibNull

Spec == Init /\ [][Next]_vars

(***************************************************************************)
(* SpecGuard: NThreads threads call _call_whisper_full on one adapter.     *)
(***************************************************************************)
\* a thread calls adapter._call_whisper_full(audio_data, language, duration)
StartCall(t) ==
    /\ pc[t] = "idle"
    /\ calls[t] < MaxCalls
    /\ calls' = [calls EXCEPT ![t] = @ + 1]
    /\ pc' = [pc EXCEPT ![t] = "acquire"]
    /\ UNCHANGED <<lock, ctx, lib, nctx, freed, forced, reinits,
                   gres, gtext, svars>>

\* the caller receives the result or the exception
CallReturn(t) ==
    /\ pc[t] = "ret"
    /\ pc' = [pc EXCEPT ![t] = "idle"]
    /\ reinits' = [reinits EXCEPT ![t] = 0]
    /\ gres' = [gres EXCEPT ![t] = "none"]
    /\ gtext' = [gtext EXCEPT ![t] = <<>>]
    /\ UNCHANGED <<lock, ctx, lib, nctx, freed, forced, calls, svars>>

\* adapter constructed: library loaded, context initialised, lock free
InitGuard ==
    /\ lock = 0
    /\ ctx = 1
    /\ lib = TRUE
    /\ nctx = 1
    /\ freed = {}
    /\ forced = 0
    /\ pc = [t \in Threads |-> "idle"]
    /\ calls = [t \in Threads |-> 0]
    /\ reinits = [t \in Threads |-> 0]
    /\ gres = [t \in Threads |-> "none"]
    /\ gtext = [t \in Threads |-> <<>>]
    /\ chunkEnabled = TRUE
    /\ cs = <<>> /\ useTimeout = <<>> /\ dur = <<>> /\ tmp = <<>>
    /\ queue = <<>> /\ path = <<>> /\ akind = <<>>
    /\ tres = <<>> /\ ttext = <<>> /\ clist = <<>> /\ ci = <<>>
    /\ ctexts = <<>> /\ cfiles = <<>> /\ prober = "runnable"
    /\ splitRun = <<>>
    /\ art = <<>> /\ mrg = <<>> /\ aud = <<>> /\ build = "ready" /\ jobs = <<>>
    /\ app = <<>> /\ single = <<>> /\ segs = <<>>

NextGuard ==
    \/ \E t \in Threads : StartCall(t)
    \/ \E t \in Threads : Acquire(t)
    \/ \E t \in Threads : HealthCheck(t)
    \/ \E t \in Threads : Reinit(t)
    \/ \E t \in Threads : NativeReturn(t)
    \/ \E t \in Threads : CallReturn(t)
    \/ ForceCtxNull
    \/ ForceLibNull

SpecGuard == InitGuard /\ [][NextGuard]_vars

\* every started call is scheduled, and every native call returns
FairSpecGuard ==
    /\ SpecGuard
    /\ \A t \in Threads : WF_vars(Acquire(t))
    /\ \A t \in Threads : WF_vars(HealthCheck(t))
    /\ \A t \in Threads : WF_vars(Reinit(t))
    /\ \A t \in Threads : WF_vars(NativeReturn(t))
    /\ \A t \in Threads : WF_vars(CallReturn(t))

(***************************************************************************)
(* Context guard: properties of _call_whisper_full.                        *)
(***************************************************************************)
\* threads inside the native inference call (_call_whisper_full_unsafe)
InNative == {t \in DOMAIN pc : pc[t] = "infer"}

\* threads between acquiring the lock and leaving the with block
InGuarded == {t \in DOMAIN pc : pc[t] \in {"health", "reinit", "infer"}}

\* C1: at most one thread is inside the native inference call at any time,
\* however many threads call _call_whisper_full on the adapter.
C1_AtMostOneInNative == Cardinality(InNative) <= 1

\* a thread is inside the native call while another waits for the lock
C1_Witness ==
    \E t, u \in DOMAIN pc : t # u /\ pc[t] = "infer" /\ pc[u] = "acquire"

\* C2: every guarded call that was started returns or raises (no deadlock):
\* a thread never waits for the lock while holding it, never keeps it after
\* leaving the guarded section, and always gets back to its caller.
C2_EveryCallCompletes ==
    /\ [](\A t \in DOMAIN pc : pc[t] \in {"acquire", "ret", "idle"} => lock # t)
    /\ \A t \in Threads : (pc[t] = "acquire") ~> (pc[t] = "idle")

\* all N threads are inside _call_whisper_full at the same time
C2_Witness ==
    /\ \A t \in DOMAIN pc : pc[t] \in {"acquire", "health", "reinit", "infer"}
    /\ Cardinality({t \in DOMAIN pc : pc[t] = "acquire"}) = NThreads - 1

\* C3: whichever way the guarded call is left (return, inference error,
\* recovery error) the lock is free right after, the caller gets that outcome,
\* and no thread outside the guarded section holds the lock.
C3_LockReleasedOnEveryExit ==
    /\ [][\A t \in DOMAIN pc :
            (pc[t] \in {"reinit", "infer"} /\ pc'[t] = "ret")
                => /\ lock' = 0
                   /\ gres'[t] \in {"ok", "infer_error", "recovery_error"}
                   /\ (pc[t] = "reinit" => gres'[t] = "recovery_error")]_vars
    /\ [](lock # 0 => lock \in InGuarded)

\* a call left with an inference error and another thread then took the lock
C3_Witness ==
    \E t, u \in DOMAIN pc :
        /\ t # u
        /\ pc[t] = "ret" /\ gres[t] = "infer_error"
        /\ lock = u

\* C4: a call whose health check finds the handle null makes exactly one
\* recovery attempt before inference; a call that finds the handle and the
\* library set makes none.
C4_OneRecoveryPerNullHandle ==
    [][\A t \in DOMAIN pc :
        /\ (pc[t] = "health" /\ pc'[t] # "health" /\ ctx = 0)
              => (pc'[t] = "reinit" /\ reinits'[t] = 0)
        /\ (pc[t] = "health" /\ pc'[t] # "health" /\ ctx # 0 /\ lib)
              => (pc'[t] = "infer" /\ reinits'[t] = 0)
        /\ (pc[t] = "reinit" /\ pc'[t] # "reinit")
              => /\ reinits'[t] = 1
                 /\ pc'[t] \in {"infer", "ret"}
                 /\ (pc'[t] = "infer" => ctx' # 0)
        /\ (pc[t] = "infer" /\ pc'[t] # "infer")
              => (reinits'[t] = reinits[t] /\ reinits[t] \in {0, 1})]_vars

\* the handle was forced to null, one call recovered it, and a later call is
\* in inference without having attempted recovery
C4_Witness ==
    \E t, u \in DOMAIN pc :
        /\ t # u
        /\ forced > 0 /\ ctx = 2 /\ nctx = 2
        /\ pc[t] = "ret" /\ reinits[t] = 1 /\ gres[t] = "ok"
        /\ pc[u] = "infer" /\ reinits[u] = 0

\* C5: a recovery whose re-initialisation creates no context leaves the call
\* with a recovery error, without inference, with the lock free and the handle
\* null; the next health check on a null handle goes to recovery again.
C5_FailedRecoveryRaises ==
    [][\A t \in DOMAIN pc :
        /\ (pc[t] = "reinit" /\ pc'[t] # "reinit" /\ nctx' = nctx)
              => /\ pc'[t] = "ret"
                 /\ gres'[t] = "recovery_error"
                 /\ lock' = 0
                 /\ ctx' = 0
        /\ (pc[t] = "health" /\ pc'[t] # "health" /\ ctx = 0)
              => pc'[t] = "reinit"]_vars

\* one call failed to recover and a later call is attempting recovery again
C5_Witness ==
    \E t, u \in DOMAIN pc :
        /\ t # u
        /\ pc[t] = "ret" /\ gres[t] = "recovery_error"
        /\ pc[u] = "reinit" /\ ctx = 0

(***************************************************************************)
(* transcribe and transcribe_from_url: properties of the pipeline (Spec).  *)
(***************************************************************************)
\* C6: when the guarded call that ends a transcribe left with a recovery
\* error (context unhealthy and not recovered), transcribe raises that
\* recovery error to its caller, on the direct and on the chunked path; it
\* does not return a text.
C6_UnrecoverableContextRaises ==
    [][\A r \in DOMAIN pc :
        (pc[r] = "ret" /\ gres[r] = "recovery_error" /\ pc'[r] = "t_done")
            => tres'[r] = "recovery_error"]_vars

\* C7: a timeout of the caller's wait while the worker is in the guarded
\* section changes neither the lock nor the worker; a timed-out worker in the
\* native call holds the lock and is the only one in inference; the lock
\* leaves it only by its own return from the native call, which frees it.
C7_TimeoutLeavesLockWithWorker ==
    /\ [][\A r \in DOMAIN pc :
            (cs[r] = "waiting" /\ cs'[r] = "timedout" /\ pc[r] = "infer")
                => (lock = r /\ lock' = r /\ pc'[r] = "infer")]_vars
    /\ [](\A r \in DOMAIN pc :
            (cs[r] = "timedout" /\ pc[r] = "infer")
                => (lock = r /\ InNative = {r}))
    /\ [][\A r \in DOMAIN pc :
            (cs[r] = "timedout" /\ pc[r] = "infer" /\ lock' # r)
                => (pc'[r] = "ret" /\ lock' = 0)]_vars

\* the wait of a request timed out while its worker is in the native call and
\* the worker of another request waits for the lock
C7_Witness ==
    \E r, u \in DOMAIN pc :
        /\ r # u
        /\ cs[r] = "timedout" /\ pc[r] = "infer"
        /\ pc[u] = "acquire"

\* C8: the chunking pipeline is entered only from the branch of transcribe,
\* only with chunking enabled and a probed duration strictly above the
\* threshold; with a duration at most the threshold the direct path runs.
C8_ChunkingOnlyAboveThreshold ==
    /\ [](\A r \in DOMAIN pc :
            /\ pc[r] = "split"
                  => (path[r] = "chunked" /\ chunkEnabled /\ dur[r] > ChunkDuration)
            /\ (pc[r] = "load" /\ path[r] = "direct")
                  => (~chunkEnabled \/ dur[r] <= ChunkDuration)
            /\ (clist[r] # <<>> \/ ctexts[r] # <<>>) => path[r] = "chunked")
    /\ [][\A r \in DOMAIN pc :
            /\ (pc[r] = "begin" /\ pc'[r] \notin {"begin", "t_done"})
                  => \/ (pc'[r] = "split" /\ path'[r] = "chunked")
                     \/ (pc'[r] = "load" /\ path'[r] = "direct"
                            /\ (dur'[r] <= ChunkDuration \/ ~chunkEnabled))
            /\ (path'[r] = "chunked" /\ path[r] # "chunked")
                  => (pc[r] = "begin" /\ pc'[r] = "split")]_vars

\* audio exactly at the threshold is on the direct path with chunking enabled
C8_Witness ==
    \E r \in DOMAIN pc :
        /\ chunkEnabled
        /\ pc[r] = "load" /\ path[r] = "direct"
        /\ dur[r] = ChunkDuration

\* C9: a transcribe whose probe of an existing file gives no duration, for
\* whatever cause, goes on to the direct path.
C9_ProbeFailureTreatedAsShort ==
    [][\A r \in DOMAIN pc :
        (pc[r] = "begin" /\ tmp[r] /\ pc'[r] # "begin" /\ dur'[r] = 0)
            => (pc'[r] = "load" /\ path'[r] = "direct")]_vars

\* C10: on the direct path, audio that fails preflight validation makes
\* transcribe return the empty text at once, with no error and no inference.
C10_InvalidAudioReturnsEmpty ==
    [][\A r \in DOMAIN pc :
        (/\ pc[r] = "load" /\ path[r] = "direct" /\ tmp[r]
         /\ ValidateAudio(akind[r]) = "invalid"
         /\ pc'[r] # "load")
            => (pc'[r] = "t_done" /\ tres'[r] = "text" /\ ttext'[r] = <<>>)]_vars

\* C11: transcribe on a path that does not exist ends at once with the
\* audio-file-not-found error class, before any probe, decoding, lock
\* acquisition or inference.
C11_MissingFileRaisesNotFound ==
    [][\A r \in DOMAIN pc :
        (pc[r] = "begin" /\ ~tmp[r] /\ pc'[r] # "begin")
            => /\ pc'[r] = "t_done"
               /\ tres'[r] = "not_found"
               /\ ErrorClass(tres'[r]) = "AudioFileNotFoundError"
               /\ path'[r] = "none" /\ dur'[r] = 0 /\ akind'[r] = "none"
               /\ lock' = lock /\ calls'[r] = calls[r]]_vars

(***************************************************************************)
(* SpecChunking: the chunk settings (core/config.py) and the boundary      *)
(* computation of _split_audio, for any settings and duration.  Durations  *)
(* are whole seconds.                                                      *)
(***************************************************************************)
\* longest ordinary duration tried
MaxD == 95

\* durations tried: 1..MaxD seconds, and the hours-long ones at which the
\* default settings give 1000, 1001 and 1002 windows
SplitDurations == (1..MaxD) \cup {27003, 27030, 27031}

\* (whisper_chunk_duration, whisper_chunk_overlap) pairs the environment may set
SplitConfigs == {<<30, 3>>, <<30, 0>>, <<10, 4>>, <<10, 5>>, <<10, 10>>, <<10, 12>>}

\* state of the pipeline
basev == <<chunkEnabled, cs, useTimeout, dur, tmp, queue, path, akind,
           tres, ttext, clist, ci, ctexts, cfiles, prober>>

\* what SpecChunking leaves alone
pipev == <<basev, otherv>>

\* Settings.validate_chunk_overlap: ValueError when overlap >= duration / 2
ValidateChunkOverlap(L, O) == IF 2 * O >= L THEN "ValueError" ELSE "ok"

\* a test calls settings.validate_chunk_overlap(); nothing else does
ValidateCall ==
    /\ splitRun.stage = "settings"
    /\ splitRun.verdict = "none"
    /\ splitRun' = [splitRun EXCEPT !.verdict = ValidateChunkOverlap(splitRun.L, splitRun.O)]
    /\ UNCHANGED <<gvars, pipev>>

\* _split_audio is called: get_settings() hands out the settings as they
\* are, chunks = [], start = 0.0
SplitStart ==
    /\ splitRun.stage = "settings"
    /\ splitRun' = [splitRun EXCEPT !.stage = "looping"]
    /\ UNCHANGED <<gvars, pipev>>

\* _split_audio, one iteration of the boundary loop: it goes on, ends with
\* its windows, or raises at the cap
SplitStep ==
    /\ splitRun.stage = "looping"
    /\ LET st == SplitIter([start |-> splitRun.start, chunks |-> splitRun.chunks,
                            status |-> "run"], splitRun.D, splitRun.L, splitRun.O)
       IN  splitRun' = [splitRun EXCEPT
                          !.stage = CASE st.status = "run" -> "looping"
                                      [] st.status = "done" -> "loop"
                                      [] OTHER -> "failed",
                          !.start = IF st.status = "run" THEN st.start ELSE 0,
                          !.chunks = IF st.status = "err" THEN <<>> ELSE st.chunks]
    /\ UNCHANGED <<gvars, pipev>>

\* _split_audio, after the loop: the short final chunk is merged
SplitTail ==
    /\ splitRun.stage = "loop"
    /\ splitRun' = [splitRun EXCEPT !.stage = "merged",
                                    !.chunks = MergeShortTail(splitRun.chunks)]
    /\ UNCHANGED <<gvars, pipev>>

\* settings read from the environment and an audio of some duration
InitChunking ==
    /\ splitRun \in {[stage |-> "settings", L |-> c[1], O |-> c[2], D |-> d,
                      verdict |-> "none", start |-> 0, chunks |-> <<>>] :
                        c \in SplitConfigs, d \in SplitDurations}
    /\ lock = 0 /\ ctx = 1 /\ lib = TRUE /\ nctx = 1 /\ freed = {} /\ forced = 0
    /\ pc = <<>> /\ calls = <<>> /\ reinits = <<>> /\ gres = <<>> /\ gtext = <<>>
    /\ chunkEnabled = TRUE /\ prober = "runnable"
    /\ cs = <<>> /\ useTimeout = <<>> /\ dur = <<>> /\ tmp = <<>>
    /\ queue = <<>> /\ path = <<>> /\ akind = <<>>
    /\ tres = <<>> /\ ttext = <<>> /\ clist = <<>> /\ ci = <<>>
    /\ ctexts = <<>> /\ cfiles = <<>>
    /\ art = <<>> /\ mrg = <<>> /\ aud = <<>> /\ build = "ready" /\ jobs = <<>>
    /\ app = <<>> /\ single = <<>> /\ segs = <<>>

NextChunking ==
    \/ ValidateCall
    \/ SplitStart
    \/ SplitStep
    \/ SplitTail

SpecChunking == InitChunking /\ [][NextChunking]_vars

\* 1 + ceil((D - L) / (L - O)) for D > L, and 1 for D <= L
ClosedFormCount(D, L, O) ==
    IF D <= L THEN 1 ELSE 1 + ((D - L) + (L - O) - 1) \div (L - O)

\* C12: with overlap below half the chunk length the boundary loop, when it
\* returns, returns 1 + ceil((D - L) / (L - O)) windows for D > L; for D <= L
\* it returns 1 window; it raises only when that count is above the cap.
C12_WindowCountClosedForm ==
    /\ (splitRun.stage = "loop" /\ (splitRun.D <= splitRun.L \/ 2 * splitRun.O < splitRun.L))
          => Len(splitRun.chunks) = ClosedFormCount(splitRun.D, splitRun.L, splitRun.O)
    /\ (splitRun.stage = "failed" /\ 2 * splitRun.O < splitRun.L)
          => ClosedFormCount(splitRun.D, splitRun.L, splitRun.O) > MaxChunks

\* the loop returned three or more windows and the last step is a partial one
C12_Witness ==
    /\ splitRun.stage = "loop"
    /\ 2 * splitRun.O < splitRun.L
    /\ splitRun.D > splitRun.L
    /\ Len(splitRun.chunks) >= 3
    /\ (splitRun.D - splitRun.L) % (splitRun.L - splitRun.O) # 0

\* the windows w have the shape the boundary loop gives for D, L, O
WindowShape(w, D, L, O) ==
    /\ Len(w) >= 1
    /\ w[1][1] = 0
    /\ \A i \in 1..Len(w) :
          w[i][2] = IF w[i][1] + L < D THEN w[i][1] + L ELSE D
    /\ w[Len(w)][2] = D
    /\ \A i \in 1..(Len(w) - 1) : w[i + 1][1] = w[i][2] - O

\* the two worked examples
WindowExamples(w, D, L, O) ==
    /\ (D = 90 /\ L = 30 /\ O = 3)
          => w = <<(<<0, 30>>), (<<27, 57>>), (<<54, 84>>), (<<81, 90>>)>>
    /\ (D = 20 /\ L = 30 /\ O = 3) => w = <<(<<0, 20>>)>>

C14_AtMostMaxChunks ==
    splitRun.stage \in {"loop", "merged"} => Len(splitRun.chunks) <= MaxChunks

\* C15: with more than one window and a final window shorter than the
\* minimum, the merge step drops the final window and extends the previous
\* one to its end (one window fewer, same covered interval, the others
\* untouched); in every other case it leaves the list as it is.
C15_ShortTailMerged ==
    [][(splitRun.stage = "loop" /\ splitRun'.stage = "merged")
        => LET c == splitRun.chunks
               c2 == splitRun'.chunks
               n == Len(c)
           IN  IF n > 1 /\ c[n][2] - c[n][1] < MinChunkDuration
               THEN /\ Len(c2) = n - 1
                    /\ c2[n - 1] = <<c[n - 1][1], c[n][2]>>
                    /\ \A i \in 1..(n - 2) : c2[i] = c[i]
                    /\ c2[1][1] = c[1][1]
                    /\ c2[n - 1][2] = c[n][2]
               ELSE c2 = c]_vars

\* a short final window was merged: the last window is longer than L
C15_Witness ==
    /\ splitRun.stage = "merged"
    /\ Len(splitRun.chunks) >= 2
    /\ LET n == Len(splitRun.chunks) IN
         splitRun.chunks[n][2] - splitRun.chunks[n][1] > splitRun.L

\* C16: validate_chunk_overlap raises exactly when O >= L/2, and chunk
\* boundaries are never computed under settings with O >= L/2.
C16_OverlapRejectedAtConfig ==
    /\ splitRun.verdict # "none"
          => ((splitRun.verdict = "ValueError") <=> (2 * splitRun.O >= splitRun.L))
    /\ splitRun.stage \in {"looping", "loop", "merged", "failed"}
          => 2 * splitRun.O < splitRun.L

(***************************************************************************)
(* The chunk loop of _transcribe_chunked and the files of a request (Spec) *)
(***************************************************************************)
\* requests inside the attempt on one chunk of the chunk loop
InChunkAttempt ==
    {r \in DOMAIN pc :
        path[r] = "chunked"
        /\ pc[r] \in {"load", "acquire", "health", "reinit", "infer", "ret"}}

\* C17: when the attempt on one chunk raises (loading or the guarded call),
\* the sentinel is recorded for it, the next chunk is attempted, and after the
\* last chunk the request returns the merge of the texts that are not the
\* sentinel.
C17_FailedChunkBecomesSentinel ==
    [][\A r \in DOMAIN pc :
        (/\ path[r] = "chunked"
         /\ \/ (pc[r] = "ret" /\ gres[r] # "ok" /\ pc'[r] # "ret")
            \/ (pc[r] = "load" /\ pc'[r] \notin {"load", "acquire"}))
            => /\ ctexts'[r] = Append(ctexts[r], Sentinel)
               /\ IF ci[r] < Len(clist[r])
                  THEN pc'[r] = "load" /\ ci'[r] = ci[r] + 1
                  ELSE /\ pc'[r] = "t_done"
                       /\ tres'[r] = "text"
                       /\ ttext'[r] = MergeChunks(SelectSeq(ctexts'[r],
                                                    LAMBDA x : x # Sentinel))]_vars

\* the first chunk failed, the second was transcribed, and its text is returned
C17_Witness ==
    \E r \in DOMAIN pc :
        /\ pc[r] = "t_done" /\ tres[r] = "text"
        /\ ctexts[r] = <<Sentinel, <<"a", "b">> >>
        /\ ttext[r] = <<"a", "b">>

\* C18: the chunks of a request are attempted one at a time in the order of
\* their windows: during the attempt on the i-th chunk exactly i - 1 texts are
\* recorded, the attempt ends by appending the i-th text, and only then does
\* the index move to i + 1.
C18_ChunksInOrder ==
    /\ [](\A r \in InChunkAttempt :
            /\ ci[r] \in 1..Len(clist[r])
            /\ Len(ctexts[r]) = ci[r] - 1
            /\ \A i, j \in 1..Len(clist[r]) : i < j => clist[r][i] < clist[r][j])
    /\ [][\A r \in DOMAIN pc :
            (path[r] = "chunked" /\ path'[r] = "chunked" /\ ctexts'[r] # ctexts[r])
                => /\ pc[r] \in {"load", "ret"}
                   /\ Len(ctexts'[r]) = ci[r]
                   /\ SubSeq(ctexts'[r], 1, ci[r] - 1) = ctexts[r]
                   /\ \/ (ci'[r] = ci[r] + 1 /\ pc'[r] = "load")
                      \/ (ci[r] = Len(clist[r]) /\ ci'[r] = ci[r] /\ pc'[r] = "t_done")]_vars
    /\ [][\A r \in DOMAIN pc :
            (path'[r] = "chunked" /\ ci'[r] # ci[r])
                => \/ (pc[r] = "split" /\ ci'[r] = 1)
                   \/ (pc[r] \in {"load", "ret"} /\ ci'[r] = ci[r] + 1
                          /\ Len(ctexts'[r]) = ci[r])]_vars

\* the second chunk is in inference with the first chunk's text recorded
C18_Witness ==
    \E r \in DOMAIN pc :
        /\ path[r] = "chunked" /\ pc[r] = "infer"
        /\ ci[r] = 2 /\ ctexts[r] = << <<"a", "b">> >>

\* C19: when a chunked transcribe has returned or raised, none of the chunk
\* files it created is left, and the attempt on a chunk ends with its file
\* removed.
C19_ChunkFilesRemoved ==
    /\ [](\A r \in DOMAIN pc : pc[r] = "t_done" => cfiles[r] = {})
    /\ [][\A r \in DOMAIN pc :
            (path[r] = "chunked" /\ path'[r] = "chunked" /\ ctexts'[r] # ctexts[r])
                => clist[r][ci[r]] \notin cfiles'[r]]_vars

NCallers == 2
Callers == 1..NCallers

\* audio paths given to transcribe, as (parent, stem, suffix)
ArtPaths == {<<"in", "a", "mp3">>, <<"in", "a", "wav">>, <<"in", "b", "wav">>}

\* durations of the audio given to the chunked path: two and three windows
ArtDurations == {31, 58}

\* chunk_path = base_path / f"{base_name}_chunk_{i}.wav", i counted from 0
ChunkPath(p, i) == <<p[1], p[2], i - 1>>

\* every chunk path the calls can form
ArtNames == {ChunkPath(p, i) : p \in ArtPaths, i \in 1..3}

\* calls between the start of _split_audio and the end of the chunk loop
ArtInProgress(c) == c \in Callers /\ art.c[c].pc \in {"split", "chunks", "cleanup"}

\* the chunk path the next step of call c writes, reads or removes
ArtTouches(c) ==
    IF art.c[c].pc = "split"
    THEN ChunkPath(art.c[c].path, art.c[c].wins[art.c[c].wi])
    ELSE art.c[c].files[art.c[c].fi]

\* transcribe(audio_path, ...) on a long audio: _transcribe_chunked computes
\* the windows
ArtCall(c) ==
    /\ art.c[c].pc = "idle"
    /\ \E p \in ArtPaths, d \in ArtDurations :
         art' = [art EXCEPT !.c[c] =
                   [pc |-> "split", path |-> p,
                    wins |-> KeptFrom(SplitWindows(d, ChunkDuration, ChunkOverlap).chunks, 1),
                    wi |-> 1, files |-> <<>>, fi |-> 0]]
    /\ UNCHANGED <<gvars, basev, splitRun, app, single, segs, mrg, aud, build, jobs>>

\* _split_audio: ffmpeg -y writes the next chunk file (overwriting a file of
\* that name), or fails and the call raises
ArtWrite(c) ==
    /\ art.c[c].pc = "split"
    /\ LET n == ArtTouches(c)
           me == art.c[c]
       IN  \E ok \in BOOLEAN :
            IF ok
            THEN art' = [art EXCEPT
                    !.disk[n] = c,
                    !.c[c] = IF me.wi < Len(me.wins)
                             THEN [me EXCEPT !.files = Append(@, n), !.wi = @ + 1]
                             ELSE [me EXCEPT !.files = Append(@, n), !.wi = 0,
                                             !.fi = 1, !.pc = "chunks"]]
            ELSE art' = [art EXCEPT !.c[c] = [me EXCEPT !.pc = "done", !.wi = 0]]
    /\ UNCHANGED <<gvars, basev, splitRun, app, single, segs, mrg, aud, build, jobs>>

\* _transcribe_direct(chunk_path): the file at the chunk path is decoded and
\* transcribed (or the attempt raises and the sentinel is recorded)
ArtRead(c) ==
    /\ art.c[c].pc = "chunks"
    /\ art' = [art EXCEPT !.c[c].pc = "cleanup"]
    /\ UNCHANGED <<gvars, basev, splitRun, app, single, segs, mrg, aud, build, jobs>>

\* finally: if os.path.exists(chunk_path): os.remove(chunk_path)
ArtRemove(c) ==
    /\ art.c[c].pc = "cleanup"
    /\ LET n == ArtTouches(c)
           me == art.c[c]
       IN  art' = [art EXCEPT
                !.disk[n] = 0,
                !.c[c] = IF me.fi < Len(me.files)
                         THEN [me EXCEPT !.fi = @ + 1, !.pc = "chunks"]
                         ELSE [me EXCEPT !.fi = 0, !.pc = "done"]]
    /\ UNCHANGED <<gvars, basev, splitRun, app, single, segs, mrg, aud, build, jobs>>

\* no chunk file on disk, no call started
InitArtifacts ==
    /\ art = [disk |-> [n \in ArtNames |-> 0],
              c |-> [c \in Callers |->
                       [pc |-> "idle", path |-> <<>>, wins |-> <<>>, wi |-> 0,
                        files |-> <<>>, fi |-> 0]]]
    /\ lock = 0 /\ ctx = 1 /\ lib = TRUE /\ nctx = 1 /\ freed = {} /\ forced = 0
    /\ pc = <<>> /\ calls = <<>> /\ reinits = <<>> /\ gres = <<>> /\ gtext = <<>>
    /\ chunkEnabled = TRUE /\ prober = "runnable"
    /\ cs = <<>> /\ useTimeout = <<>> /\ dur = <<>> /\ tmp = <<>>
    /\ queue = <<>> /\ path = <<>> /\ akind = <<>>
    /\ tres = <<>> /\ ttext = <<>> /\ clist = <<>> /\ ci = <<>>
    /\ ctexts = <<>> /\ cfiles = <<>> /\ splitRun = <<>>
    /\ mrg = <<>> /\ aud = <<>> /\ build = "ready" /\ jobs = <<>>
    /\ app = <<>> /\ single = <<>> /\ segs = <<>>

NextArtifacts ==
    \/ \E c \in Callers : ArtCall(c)
    \/ \E c \in Callers : ArtWrite(c)
    \/ \E c \in Callers : ArtRead(c)
    \/ \E c \in Callers : ArtRemove(c)

SpecArtifacts == InitArtifacts /\ [][NextArtifacts]_vars

\* C21: every step of a call in progress that writes (ffmpeg succeeded), reads
\* or removes a chunk file touches a path that holds no file or a file the call itself
\* created, never one created by another call that is still in progress.
C21_ChunkFilesPrivate ==
    [][\A c \in Callers :
        (/\ ArtInProgress(c)
         /\ art'.c[c] # art.c[c]
         /\ ~(art.c[c].pc = "split" /\ art'.c[c].pc = "done"))
            => LET o == art.disk[ArtTouches(c)] IN
               o \in {0, c} \/ ~ArtInProgress(o)]_vars

(***************************************************************************)
(* SpecMerge: _merge_chunks on strings.  A string is a sequence of tokens, *)
(* each a blank " " or a word; str.strip, str.split and " ".join are the   *)
(* operators below.                                                        *)
(***************************************************************************)
\* chunk texts passed to one call of _merge_chunks
MaxTexts == 3
\* words in the texts enumerated in full
MaxWords == 2

RECURSIVE LStrip(_)
\* leading blanks removed
LStrip(s) == IF s # <<>> /\ Head(s) = " " THEN LStrip(Tail(s)) ELSE s

RECURSIVE RStrip(_)
\* trailing blanks removed
RStrip(s) == IF s # <<>> /\ s[Len(s)] = " " THEN RStrip(SubSeq(s, 1, Len(s) - 1)) ELSE s

\* str.strip()
Strip(s) == RStrip(LStrip(s))

\* str.split(): the words of s
SplitWords(s) == SelectSeq(s, LAMBDA t : t # " ")

RECURSIVE JoinStr(_)
\* " ".join(parts) for strings
JoinStr(parts) ==
    IF parts = <<>> THEN <<>>
    ELSE IF Len(parts) = 1 THEN parts[1]
    ELSE parts[1] \o <<" ">> \o JoinStr(Tail(parts))

\* " ".join(words)
JoinWords(ws) == JoinStr([i \in 1..Len(ws) |-> <<ws[i]>>])

\* a filter that lets the sentinel through
IsValidTextKeepSentinel(t) == Strip(t) # <<>>

\* if text.strip() and text.strip() != "[inaudible]"
IsValidText(t) == Strip(t) # <<>> /\ Strip(t) # Sentinel

\* valid_texts
ValidTexts(texts) ==
    LET sel == SelectSeq(texts, IsValidText) IN [i \in 1..Len(sel) |-> Strip(sel[i])]

\* the body of the seam loop with prevWords as the left-hand words
MergeSeamWith(prevWords, parts, current) ==
    LET currWords == SplitWords(current) IN
    IF Len(prevWords) < 2 \/ Len(currWords) < 2 THEN Append(parts, current)
    ELSE LET j == OverlapStart(prevWords, currWords)
             cur2 == IF j > 0 THEN JoinWords(SubSeq(currWords, j + 1, Len(currWords)))
                     ELSE current
         IN  IF Strip(cur2) # <<>> THEN Append(parts, Strip(cur2)) ELSE parts

\* one iteration of the seam loop: prev_words = merged_parts[-1].split()
MergeSeam(parts, current) ==
    MergeSeamWith(SplitWords(parts[Len(parts)]), parts, current)

\* texts of at most MaxWords words over two words, single-spaced
RegularTexts ==
    {JoinWords(ws) : ws \in UNION {[1..n -> {"a", "b"}] : n \in 0..MaxWords}}

\* texts with blanks around and inside, the sentinel, longer texts with
\* repetitions, and the texts of the documented examples
OddTexts ==
    { <<" ">>, <<" ", "a", " ">>, <<"a", " ", " ", "b">>,
      Sentinel, <<" ", "[inaudible]", " ">>, <<"[inaudible]", " ", "a">>,
      JoinWords(<<"a", "b", "c">>), JoinWords(<<"b", "c", "a">>),
      JoinWords(<<"c", "d">>), <<"Hello">>, <<"world">>,
      JoinWords(<<"a", "b", "a", "b", "a", "b">>) }

MergeTexts == RegularTexts \cup OddTexts

\* _merge_chunks up to the seam loop: empty input, filter, none or one left
MergeFilter ==
    /\ mrg.stage = "called"
    /\ LET valid == ValidTexts(mrg.texts) IN
         mrg' = IF mrg.texts = <<>> \/ valid = <<>>
                THEN [mrg EXCEPT !.stage = "done", !.valid = valid, !.out = <<>>]
                ELSE IF Len(valid) = 1
                THEN [mrg EXCEPT !.stage = "done", !.valid = valid, !.out = valid[1]]
                ELSE [mrg EXCEPT !.stage = "seams", !.valid = valid,
                                 !.parts = <<valid[1]>>, !.i = 2]
    /\ UNCHANGED <<gvars, basev, splitRun, app, single, segs, art, aud, build, jobs>>

\* for i in range(1, len(valid_texts)): one seam
MergeSeamStep ==
    /\ mrg.stage = "seams"
    /\ mrg.i <= Len(mrg.valid)
    /\ mrg' = [mrg EXCEPT !.parts = MergeSeam(mrg.parts, mrg.valid[mrg.i]), !.i = @ + 1]
    /\ UNCHANGED <<gvars, basev, splitRun, app, single, segs, art, aud, build, jobs>>

\* merged = " ".join(merged_parts); return merged
MergeJoin ==
    /\ mrg.stage = "seams"
    /\ mrg.i > Len(mrg.valid)
    /\ mrg' = [mrg EXCEPT !.stage = "done", !.out = JoinStr(mrg.parts)]
    /\ UNCHANGED <<gvars, basev, splitRun, app, single, segs, art, aud, build, jobs>>

\* _merge_chunks is called with up to MaxTexts chunk texts
InitMerge ==
    /\ mrg \in {[stage |-> "called", texts |-> t, valid |-> <<>>, parts |-> <<>>,
                 i |-> 0, out |-> <<>>] :
                   t \in UNION {[1..n -> MergeTexts] : n \in 0..MaxTexts}}
    /\ lock = 0 /\ ctx = 1 /\ lib = TRUE /\ nctx = 1 /\ freed = {} /\ forced = 0
    /\ pc = <<>> /\ calls = <<>> /\ reinits = <<>> /\ gres = <<>> /\ gtext = <<>>
    /\ chunkEnabled = TRUE /\ prober = "runnable"
    /\ cs = <<>> /\ useTimeout = <<>> /\ dur = <<>> /\ tmp = <<>>
    /\ queue = <<>> /\ path = <<>> /\ akind = <<>>
    /\ tres = <<>> /\ ttext = <<>> /\ clist = <<>> /\ ci = <<>>
    /\ ctexts = <<>> /\ cfiles = <<>> /\ splitRun = <<>>
    /\ art = <<>> /\ aud = <<>> /\ build = "ready" /\ jobs = <<>>
    /\ app = <<>> /\ single = <<>> /\ segs = <<>>

NextMerge ==
    \/ MergeFilter
    \/ MergeSeamStep
    \/ MergeJoin

SpecMerge == InitMerge /\ [][NextMerge]_vars

\* the texts of a call that are neither blank nor the sentinel, in order
KeptTexts ==
    SelectSeq(mrg.texts, LAMBDA t : SplitWords(t) # <<>> /\ SplitWords(t) # <<"[inaudible]">>)

\* the last j words of left are the first j words of right
SeamMatch(left, right, j) ==
    /\ j <= Len(left) /\ j <= Len(right)
    /\ SubSeq(left, Len(left) - j + 1, Len(left)) = SubSeq(right, 1, j)

\* no two neighbouring texts of ts repeat words across their seam
NoSeamOverlap(ts) ==
    \A i \in 1..(Len(ts) - 1) :
        \A j \in 1..Len(SplitWords(ts[i])) :
            ~SeamMatch(SplitWords(ts[i]), SplitWords(ts[i + 1]), j)

\* C22: _merge_chunks returns the empty string when no text is left after
\* dropping blank texts and the sentinel; when the texts left repeat no words
\* at any seam it returns them (stripped) in their order joined by single
\* spaces; ["a b", "c d"] gives "a b c d" and
\* ["Hello", "[inaudible]", "world"] gives "Hello world".
C22_MergeDropsAndJoins ==
    mrg.stage = "done" =>
        /\ KeptTexts = <<>> => mrg.out = <<>>
        /\ NoSeamOverlap(KeptTexts)
              => mrg.out = JoinStr([i \in 1..Len(KeptTexts) |-> Strip(KeptTexts[i])])
        /\ mrg.texts = <<JoinWords(<<"a", "b">>), JoinWords(<<"c", "d">>)>>
              => mrg.out = <<"a", " ", "b", " ", "c", " ", "d">>
        /\ mrg.texts = << <<"Hello">>, <<"[inaudible]">>, <<"world">> >>
              => mrg.out = <<"Hello", " ", "world">>

\* the sentinel example has been merged
C22_Witness ==
    /\ mrg.stage = "done"
    /\ mrg.texts = << <<"Hello">>, <<"[inaudible]">>, <<"world">> >>
    /\ mrg.out = <<"Hello", " ", "world">>

\* C23: at every seam the left side is the last merged part and the right
\* side the next text.  When both have at least 2 words and some j <= k =
\* min(5, words left, words right) has the last j words of the left equal to
\* the first j of the right, the largest such j is taken and the next text is
\* appended without its first j words (nothing is appended when no word is
\* left); otherwise the next text is appended unchanged.
C23_LargestOverlapDropped ==
    [][(mrg.stage = "seams" /\ mrg'.stage = "seams" /\ mrg'.i = mrg.i + 1)
        => LET left == SplitWords(mrg.parts[Len(mrg.parts)])
               next == mrg.valid[mrg.i]
               right == SplitWords(next)
               k == Min2(MergeWindow, Min2(Len(left), Len(right)))
               js == {j \in 1..k : SeamMatch(left, right, j)}
           IN  IF Len(left) >= 2 /\ Len(right) >= 2 /\ js # {}
               THEN \E j \in js :
                      /\ \A m \in js : m <= j
                      /\ IF j = Len(right) THEN mrg'.parts = mrg.parts
                         ELSE mrg'.parts =
                                Append(mrg.parts, JoinWords(SubSeq(right, j + 1, Len(right))))
               ELSE mrg'.parts = Append(mrg.parts, next)]_vars

\* a seam with matches for j = 2 and j = 4 within the window of 5, and 6 out
\* of it: four words were dropped and two appended
C23_Witness ==
    /\ mrg.stage = "seams"
    /\ mrg.i = 3
    /\ mrg.valid[1] = JoinWords(<<"a", "b", "a", "b", "a", "b">>)
    /\ mrg.valid[2] = mrg.valid[1]
    /\ mrg.parts = <<mrg.valid[1], JoinWords(<<"a", "b">>)>>

\* C24: at every seam the overlap is looked for between the last words of the
\* whole text merged so far and the first words of the next text.
C24_LeftSideIsAccumulatedTail ==
    [][(mrg.stage = "seams" /\ mrg'.stage = "seams" /\ mrg'.i = mrg.i + 1)
        => mrg'.parts = MergeSeamWith(SplitWords(JoinStr(mrg.parts)),
                                      mrg.parts, mrg.valid[mrg.i])]_vars

(***************************************************************************)
(* SpecAudio: _validate_audio on a buffer of samples.  A sample is a whole *)
(* number of ten-thousandths (0.0001) of full scale; peak and deviation    *)
(* are computed exactly.                                                   *)
(***************************************************************************)
\* samples in the buffers enumerated
MaxSamples == 3
\* 0.01, the peak below which audio is silent
SilenceThreshold == 100
\* 0.001, the standard deviation below which audio is constant noise
NoiseThreshold == 10

\* sample values: full-scale halves, values around the silence threshold,
\* zero, and two values 0.0005 apart
SampleValues == {-5000, -100, -99, 0, 99, 100, 4995, 5000}

Abs(x) == IF x < 0 THEN -x ELSE x

RECURSIVE SumSeq(_)
SumSeq(q) == IF q = <<>> THEN 0 ELSE Head(q) + SumSeq(Tail(q))

\* np.abs(audio_data).max() for a buffer with at least one sample
AudioMax(buf) == CHOOSE m \in {Abs(buf[i]) : i \in 1..Len(buf)} :
                    \A i \in 1..Len(buf) : Abs(buf[i]) <= m

\* np.std(audio_data) < t: the population variance is below t squared,
\* n * sum(x^2) - sum(x)^2 < t^2 * n^2
StdBelow(buf, t) ==
    LET n == Len(buf)
        sq == [i \in 1..n |-> buf[i] * buf[i]]
    IN  n * SumSeq(sq) - SumSeq(buf) * SumSeq(buf) < t * t * n * n

\* the deviation test made before the peak test
ValidateAudioDataStdFirst(buf) ==
    IF Len(buf) = 0 THEN <<FALSE, "empty">>
    ELSE IF StdBelow(buf, NoiseThreshold) THEN <<FALSE, "constant noise">>
    ELSE IF AudioMax(buf) < SilenceThreshold THEN <<FALSE, "silent">>
    ELSE <<TRUE, "valid">>

\* _validate_audio: (is_valid, reason)
ValidateAudioData(buf) ==
    IF Len(buf) = 0 THEN <<FALSE, "empty">>
    ELSE IF AudioMax(buf) < SilenceThreshold THEN <<FALSE, "silent">>
    ELSE IF StdBelow(buf, NoiseThreshold) THEN <<FALSE, "constant noise">>
    ELSE <<TRUE, "valid">>

\* is_valid, reason = self._validate_audio(audio_data)
ValidateAudioCall ==
    /\ aud.stage = "called"
    /\ aud' = [aud EXCEPT !.stage = "done", !.verdict = ValidateAudioData(aud.buf)]
    /\ UNCHANGED <<gvars, basev, splitRun, app, single, segs, art, mrg, build, jobs>>

\* a buffer of up to MaxSamples samples is about to be validated
InitAudio ==
    /\ aud \in {[stage |-> "called", buf |-> b, verdict |-> <<>>] :
                  b \in UNION {[1..n -> SampleValues] : n \in 0..MaxSamples}}
    /\ lock = 0 /\ ctx = 1 /\ lib = TRUE /\ nctx = 1 /\ freed = {} /\ forced = 0
    /\ pc = <<>> /\ calls = <<>> /\ reinits = <<>> /\ gres = <<>> /\ gtext = <<>>
    /\ chunkEnabled = TRUE /\ prober = "runnable"
    /\ cs = <<>> /\ useTimeout = <<>> /\ dur = <<>> /\ tmp = <<>>
    /\ queue = <<>> /\ path = <<>> /\ akind = <<>>
    /\ tres = <<>> /\ ttext = <<>> /\ clist = <<>> /\ ci = <<>>
    /\ ctexts = <<>> /\ cfiles = <<>> /\ splitRun = <<>>
    /\ art = <<>> /\ mrg = <<>> /\ build = "ready" /\ jobs = <<>>
    /\ app = <<>> /\ single = <<>> /\ segs = <<>>

NextAudio == ValidateAudioCall

SpecAudio == InitAudio /\ [][NextAudio]_vars

\* the buffer has samples and they are all the same value c
IsConstant(buf, c) == Len(buf) > 0 /\ \A i \in 1..Len(buf) : buf[i] = c

\* a buffer with samples in [-0.5, 0.5] at least one of which reaches 0.01,
\* and with a standard deviation of at least 0.001, as uniform random noise
\* over that range has
IsNoise(buf) ==
    /\ Len(buf) > 0
    /\ \A i \in 1..Len(buf) : buf[i] >= -5000 /\ buf[i] <= 5000
    /\ \E i \in 1..Len(buf) : buf[i] >= 100 \/ buf[i] <= -100
    /\ LET n == Len(buf) IN
         n * SumSeq([i \in 1..n |-> buf[i] * buf[i]]) - SumSeq(buf) * SumSeq(buf)
            >= 100 * n * n

\* C25 (as amended): 0 samples are invalid "empty"; all zeros are invalid
\* "silent"; one repeated constant c is invalid "constant noise" when
\* |c| >= 0.01 and invalid "silent" when 0 < |c| < 0.01; noise in [-0.5, 0.5]
\* with peak at least 0.01 and deviation at least 0.001 is valid.
C25_PreflightClasses ==
    aud.stage = "done" =>
        /\ Len(aud.buf) = 0 => aud.verdict = <<FALSE, "empty">>
        /\ IsConstant(aud.buf, 0) => aud.verdict = <<FALSE, "silent">>
        /\ \A c \in SampleValues \ {0} :
              IsConstant(aud.buf, c) =>
                 aud.verdict = IF Abs(c) >= 100 THEN <<FALSE, "constant noise">>
                               ELSE <<FALSE, "silent">>
        /\ IsNoise(aud.buf) => aud.verdict = <<TRUE, "valid">>

\* a quiet repeated constant (0.0099) has been classified
C25_Witness ==
    /\ aud.stage = "done"
    /\ IsConstant(aud.buf, 99)
    /\ Len(aud.buf) = MaxSamples
    /\ aud.verdict = <<FALSE, "silent">>

\* C25 as stated: 0 samples are invalid "empty"; all zeros are invalid
\* "silent"; every repeated nonzero constant is invalid "constant noise";
\* noise in [-0.5, 0.5] is valid.
C25_PreflightClassesAsStated ==
    aud.stage = "done" =>
        /\ Len(aud.buf) = 0 => aud.verdict = <<FALSE, "empty">>
        /\ IsConstant(aud.buf, 0) => aud.verdict = <<FALSE, "silent">>
        /\ \A c \in SampleValues \ {0} :
              IsConstant(aud.buf, c) => aud.verdict = <<FALSE, "constant noise">>
        /\ IsNoise(aud.buf) => aud.verdict = <<TRUE, "valid">>

(***************************************************************************)
(* SpecLifecycle: construction of the adapter (__init__, _load_libraries,  *)
(* _initialize_context), guarded calls by NThreads threads, and teardown   *)
(* (__del__).                                                              *)
(***************************************************************************)
\* construction that goes on after a failed step
BuildAfterKeepGoing(stage, ok) ==
    CASE stage = "new" -> IF ok THEN "sized" ELSE "ValueError"
      [] stage = "sized" -> "loaded"
      [] stage = "loaded" -> IF ok THEN "ready" ELSE "ModelInitError"
      [] OTHER -> stage

\* the stage __init__ reaches after the step of the given stage succeeded or
\* failed: the failure is raised out of __init__
BuildAfter(stage, ok) ==
    CASE stage = "new" -> IF ok THEN "sized" ELSE "ValueError"
      [] stage = "sized" -> IF ok THEN "loaded" ELSE "LibraryLoadError"
      [] stage = "loaded" -> IF ok THEN "ready" ELSE "ModelInitError"
      [] OTHER -> stage

\* stages at which __init__ has raised
BuildFailed == {"ValueError", "LibraryLoadError", "ModelInitError"}

\* if self.model_size not in MODEL_CONFIGS: raise ValueError; then self.lib =
\* None, self.ctx = None, self._lock = threading.Lock()
CheckModelSize ==
    /\ build = "new"
    /\ \E known \in BOOLEAN : build' = BuildAfter(build, known)
    /\ UNCHANGED <<gvars, basev, splitRun, app, single, segs, art, mrg, aud, jobs>>

\* _load_libraries: the library directory and the four shared objects
LoadLibraries ==
    /\ build = "sized"
    /\ \E ok \in BOOLEAN :
         /\ build' = BuildAfter(build, ok)
         /\ lib' = ok
    /\ UNCHANGED <<lock, ctx, nctx, freed, forced, pc, calls, reinits, gres, gtext,
                   basev, splitRun, app, single, segs, art, mrg, aud, jobs>>

\* _initialize_context: model file missing, whisper_init_from_file raising or
\* returning NULL give ModelInitError; otherwise the adapter is ready for calls
InitializeContext ==
    /\ build = "loaded"
    /\ \E ok \in BOOLEAN :
         /\ build' = BuildAfter(build, ok)
         /\ ctx' = IF ok THEN nctx + 1 ELSE 0
         /\ nctx' = IF ok THEN nctx + 1 ELSE nctx
         /\ pc' = IF BuildAfter(build, ok) = "ready"
                  THEN [t \in Threads |-> "idle"] ELSE pc
    /\ UNCHANGED <<lock, lib, freed, forced, calls, reinits, gres, gtext,
                   basev, splitRun, app, single, segs, art, mrg, aud, jobs>>

\* __del__: when no call is running and the object is dropped, whisper_free
\* is called on self.ctx if both handles are set
Teardown ==
    /\ build \in {"ready"} \cup BuildFailed
    /\ \A t \in Threads : pc[t] \in {"idle", "unborn"}
    /\ freed' = IF ctx # 0 /\ lib THEN freed \cup {ctx} ELSE freed
    /\ build' = "gone"
    /\ pc' = [t \in Threads |-> "gone"]
    /\ UNCHANGED <<lock, ctx, lib, nctx, forced, calls, reinits, gres, gtext,
                   basev, splitRun, app, single, segs, art, mrg, aud, jobs>>

\* WhisperLibraryAdapter(model_size) is called
InitLifecycle ==
    /\ build = "new"
    /\ lock = 0 /\ ctx = 0 /\ lib = FALSE /\ nctx = 0 /\ freed = {} /\ forced = 0
    /\ pc = [t \in Threads |-> "unborn"]
    /\ calls = [t \in Threads |-> 0]
    /\ reinits = [t \in Threads |-> 0]
    /\ gres = [t \in Threads |-> "none"]
    /\ gtext = [t \in Threads |-> <<>>]
    /\ chunkEnabled = TRUE /\ prober = "runnable"
    /\ cs = <<>> /\ useTimeout = <<>> /\ dur = <<>> /\ tmp = <<>>
    /\ queue = <<>> /\ path = <<>> /\ akind = <<>>
    /\ tres = <<>> /\ ttext = <<>> /\ clist = <<>> /\ ci = <<>>
    /\ ctexts = <<>> /\ cfiles = <<>> /\ splitRun = <<>>
    /\ art = <<>> /\ mrg = <<>> /\ aud = <<>> /\ jobs = <<>>
    /\ app = <<>> /\ single = <<>> /\ segs = <<>>

NextLifecycle ==
    \/ CheckModelSize
    \/ LoadLibraries
    \/ InitializeContext
    \/ \E t \in Threads : StartCall(t)
    \/ \E t \in Threads : Acquire(t)
    \/ \E t \in Threads : HealthCheck(t)
    \/ \E t \in Threads : Reinit(t)
    \/ \E t \in Threads : NativeReturn(t)
    \/ \E t \in Threads : CallReturn(t)
    \/ (build = "ready" /\ ForceCtxNull)
    \/ (build = "ready" /\ ForceLibNull)
    \/ Teardown

SpecLifecycle == InitLifecycle /\ [][NextLifecycle]_vars

\* C26: construction checks the model size, loads the libraries and
\* initialises the context in that order; a failing step raises its own error
\* (ValueError, LibraryLoadError, ModelInitError) and nothing later is
\* attempted; when construction completes the library handle is loaded and
\* the context is not null.
C26_ConstructionInOrder ==
    /\ [][build' # build =>
            \/ (build = "new" /\ build' \in {"sized", "ValueError"}
                  /\ ~lib' /\ ctx' = 0 /\ nctx' = 0)
            \/ (build = "sized" /\ build' = "loaded" /\ lib' /\ ctx' = 0 /\ nctx' = 0)
            \/ (build = "sized" /\ build' = "LibraryLoadError"
                  /\ ~lib' /\ ctx' = 0 /\ nctx' = 0)
            \/ (build = "loaded" /\ build' = "ready" /\ lib' /\ ctx' # 0 /\ nctx' = 1)
            \/ (build = "loaded" /\ build' = "ModelInitError" /\ ctx' = 0 /\ nctx' = 0)
            \/ build' = "gone"]_vars
    /\ [](build \in BuildFailed
            => /\ nctx = 0 /\ ctx = 0
               /\ \A t \in DOMAIN pc : pc[t] = "unborn"
               /\ (build # "ModelInitError" => ~lib))

\* construction completed and a call is in the native code
C26_Witness ==
    /\ build = "ready"
    /\ lib /\ ctx # 0
    /\ \E t \in DOMAIN pc : pc[t] = "infer"

\* C30: no context is passed to whisper_free twice; after teardown every
\* context created has been passed to whisper_free; a context in use by
\* inference has not been freed.
C30_ContextFreedExactlyOnce ==
    /\ [][(/\ ctx # 0 /\ lib
           /\ \/ \E t \in DOMAIN pc : pc[t] = "reinit" /\ pc'[t] # "reinit"
              \/ (build # "gone" /\ build' = "gone"))
            => ctx \notin freed]_vars
    /\ [](build = "gone" => freed = 1..nctx)
    /\ [](\A t \in DOMAIN pc : pc[t] = "infer" => (ctx # 0 /\ ctx \notin freed))

(***************************************************************************)
(* SpecJobs: the async service (services/async_transcription.py), its      *)
(* route (async_transcribe_routes.py) and the job states held in Redis     *)
(* (infrastructure/redis/client.py).  One server process: a submission     *)
(* runs from its read of the state to the scheduling of the background     *)
(* task without giving up the event loop.                                  *)
(***************************************************************************)
\* request ids clients use
NJobs == 2
JobIds == 1..NJobs
\* submissions made with one request id
MaxSubmits == 2

\* RedisClient.get_job_state: the stored state, or None when there is none
\* and when the read fails (RedisError is caught)
GetJobState(stored, readOk) == IF readOk THEN stored ELSE "none"

\* RedisClient.set_job_state: SETEX of the new state, or nothing and False
\* when the write fails (RedisError is caught)
SetJobState(stored, new, writeOk) == IF writeOk THEN new ELSE stored

\* submit_transcription_job: submit_job reads the state; an existing job is
\* returned as it is; otherwise PROCESSING is stored (RuntimeError when that
\* fails) and the route adds process_job_background for the "submitted
\* successfully" answer
SubmitJob(j) ==
    /\ jobs.subs[j] < MaxSubmits
    /\ \E readOk \in BOOLEAN, writeOk \in BOOLEAN :
        LET existing == GetJobState(jobs.store[j], readOk) IN
        IF existing # "none"
        THEN jobs' = [jobs EXCEPT
                        !.subs[j] = @ + 1,
                        !.resp[j] = [status |-> existing, message |-> "already exists"]]
        ELSE IF writeOk
        THEN jobs' = [jobs EXCEPT
                        !.subs[j] = @ + 1,
                        !.store[j] = SetJobState(@, "PROCESSING", writeOk),
                        !.resp[j] = [status |-> "PROCESSING",
                                     message |-> "submitted successfully"],
                        !.started[j] = @ + 1,
                        !.active[j] = @ + 1]
        ELSE jobs' = [jobs EXCEPT
                        !.subs[j] = @ + 1,
                        !.resp[j] = [status |-> "none", message |-> "error"]]
    /\ UNCHANGED <<gvars, basev, splitRun, app, single, segs, art, mrg, aud, build>>

\* use_timeout: bool = True in the signature of transcribe_from_url
UseTimeoutDefault == TRUE

\* process_job_background calls transcribe_from_url(audio_url=..., language=...)
\* and passes no use_timeout, so the default applies
BackgroundUseTimeout == UseTimeoutDefault

\* how transcribe_from_url can end: it returns, it raises (download or
\* transcription error), or, under asyncio.wait_for only, the adaptive
\* timeout elapses and TimeoutError is raised
TranscribeOutcomes(u) == {"returned", "raised"} \cup (IF u THEN {"timeout"} ELSE {})

\* process_job_background ends: transcribe_from_url returned and COMPLETED
\* is written, or it raised and FAILED is written; the outcome of the write
\* is not looked at
ProcessJobEnd(j) ==
    /\ jobs.active[j] > 0
    /\ \E o \in TranscribeOutcomes(BackgroundUseTimeout), writeOk \in BOOLEAN :
         jobs' = [jobs EXCEPT
                    !.active[j] = @ - 1,
                    !.last[j] = o,
                    !.store[j] = SetJobState(@, IF o = "returned" THEN "COMPLETED"
                                                ELSE "FAILED", writeOk)]
    /\ UNCHANGED <<gvars, basev, splitRun, app, single, segs, art, mrg, aud, build>>

\* Redis drops the key when its TTL (redis_job_ttl) has run out
ExpireJob(j) ==
    /\ jobs.store[j] # "none"
    /\ jobs' = [jobs EXCEPT !.store[j] = "none"]
    /\ UNCHANGED <<gvars, basev, splitRun, app, single, segs, art, mrg, aud, build>>

\* no job stored, nothing submitted
InitJobs ==
    /\ jobs = [store |-> [j \in JobIds |-> "none"],
               subs |-> [j \in JobIds |-> 0],
               started |-> [j \in JobIds |-> 0],
               active |-> [j \in JobIds |-> 0],
               last |-> [j \in JobIds |-> "none"],
               resp |-> [j \in JobIds |-> [status |-> "none", message |-> "none"]]]
    /\ lock = 0 /\ ctx = 1 /\ lib = TRUE /\ nctx = 1 /\ freed = {} /\ forced = 0
    /\ pc = <<>> /\ calls = <<>> /\ reinits = <<>> /\ gres = <<>> /\ gtext = <<>>
    /\ chunkEnabled = TRUE /\ prober = "runnable"
    /\ cs = <<>> /\ useTimeout = <<>> /\ dur = <<>> /\ tmp = <<>>
    /\ queue = <<>> /\ path = <<>> /\ akind = <<>>
    /\ tres = <<>> /\ ttext = <<>> /\ clist = <<>> /\ ci = <<>>
    /\ ctexts = <<>> /\ cfiles = <<>> /\ splitRun = <<>>
    /\ art = <<>> /\ mrg = <<>> /\ aud = <<>> /\ build = "ready"
    /\ app = <<>> /\ single = <<>> /\ segs = <<>>

NextJobs ==
    \/ \E j \in JobIds : SubmitJob(j)
    \/ \E j \in JobIds : ProcessJobEnd(j)
    \/ \E j \in JobIds : ExpireJob(j)

SpecJobs == InitJobs /\ [][NextJobs]_vars

\* the step is a submission with request id j
IsSubmission(j) == jobs'.subs[j] = jobs.subs[j] + 1

\* C27: the stored status of a request id changes only from none to
\* PROCESSING at a submission, from PROCESSING to COMPLETED or FAILED, or to
\* none by expiry; and a background run that ends on a PROCESSING job leaves
\* it COMPLETED or FAILED.
C27_StatusChangesOnce ==
    [][\A j \in JobIds :
        /\ jobs'.store[j] # jobs.store[j]
              => \/ (jobs.store[j] = "none" /\ jobs'.store[j] = "PROCESSING"
                        /\ IsSubmission(j))
                 \/ (jobs.store[j] = "PROCESSING"
                        /\ jobs'.store[j] \in {"COMPLETED", "FAILED"})
                 \/ jobs'.store[j] = "none"
        /\ (jobs'.active[j] < jobs.active[j] /\ jobs.store[j] = "PROCESSING")
              => jobs'.store[j] \in {"COMPLETED", "FAILED"}]_vars

\* C28: a submission of a request id that has a stored job answers with the
\* stored status, changes nothing stored and starts no background run; a
\* background run is started only by the submission that creates the job,
\* and by every such submission.
C28_DuplicateSubmissionIsIdempotent ==
    [][\A j \in JobIds :
        /\ (IsSubmission(j) /\ jobs.store[j] # "none")
              => /\ jobs'.resp[j].status = jobs.store[j]
                 /\ jobs'.store = jobs.store
                 /\ jobs'.started = jobs.started
        /\ jobs'.started[j] # jobs.started[j]
              => /\ jobs'.started[j] = jobs.started[j] + 1
                 /\ IsSubmission(j)
                 /\ jobs.store[j] = "none" /\ jobs'.store[j] = "PROCESSING"
        /\ (IsSubmission(j) /\ jobs.store[j] = "none" /\ jobs'.store[j] = "PROCESSING")
              => jobs'.started[j] = jobs.started[j] + 1]_vars

\* C29: a submission of a request id whose stored job is FAILED makes the job
\* PROCESSING again, answers "submitted successfully" and starts a background
\* run; one whose stored job is PROCESSING or COMPLETED answers with that
\* status, changes nothing and starts no run.
C29_FailedJobIsRetried ==
    [][\A j \in JobIds :
        /\ (IsSubmission(j) /\ jobs.store[j] = "FAILED")
              => /\ jobs'.store[j] = "PROCESSING"
                 /\ jobs'.resp[j] = [status |-> "PROCESSING",
                                     message |-> "submitted successfully"]
                 /\ jobs'.started[j] = jobs.started[j] + 1
        /\ (IsSubmission(j) /\ jobs.store[j] \in {"PROCESSING", "COMPLETED"})
              => /\ jobs'.resp[j] = [status |-> jobs.store[j], message |-> "already exists"]
                 /\ jobs'.store = jobs.store
                 /\ jobs'.started = jobs.started]_vars

\* a background run of request id j ends in this step
RunEnds(j) == jobs'.active[j] < jobs.active[j]

\* C32: when a background run ends, the stored status of its job is
\* COMPLETED if the transcription returned and FAILED if it raised; no run
\* ends with its job left PROCESSING.
C32_RunEndsSettled ==
    [][\A j \in JobIds :
         RunEnds(j) => /\ jobs'.store[j] = (IF jobs'.last[j] = "returned"
                                            THEN "COMPLETED" ELSE "FAILED")
                       /\ jobs'.store[j] # "PROCESSING"]_vars

\* C33: no background run ends because the transcribe timeout elapsed, so no
\* job is marked FAILED for that reason.
C33_NoTimeoutForBackgroundJobs ==
    [][\A j \in JobIds :
         RunEnds(j) => /\ jobs'.last[j] # "timeout"
                       /\ ~(jobs'.last[j] = "timeout" /\ jobs'.store[j] = "FAILED")]_vars

(***************************************************************************)
(* SpecStartup: the lifespan of the FastAPI application (cmd/api/main.py), *)
(* which constructs the adapter before the first request, and the health   *)
(* endpoint (health_routes.py).                                            *)
(***************************************************************************)
\* requests answered while serving
MaxServed == 2

\* a lifespan that goes on to serve whatever construction gave
StartupAfterServeAnyway(stage, c) == "serving"

\* lifespan startup: get_transcriber() raising, or an adapter whose ctx is
\* None, ends in RuntimeError; otherwise the application is yielded to serve
StartupAfter(stage, c) == IF stage = "ready" /\ c # 0 THEN "serving" ELSE "failed"

\* status = "healthy" if model_initialized else "unhealthy", with
\* model_initialized = getattr(app.state, "model_initialized", False)
HealthStatus(mi) == IF mi = TRUE THEN "healthy" ELSE "unhealthy"

\* the try block around get_transcriber() in lifespan has finished
LifespanStartup ==
    /\ app.phase = "starting"
    /\ build \in {"ready"} \cup BuildFailed
    /\ app' = [app EXCEPT !.phase = StartupAfter(build, ctx),
                          !.model_initialized = (build = "ready" /\ ctx # 0)]
    /\ UNCHANGED <<gvars, basev, splitRun, art, mrg, aud, build, jobs, single, segs>>

\* GET /health is answered
HealthRequest ==
    /\ app.phase = "serving"
    /\ app.served < MaxServed
    /\ app' = [app EXCEPT !.health = HealthStatus(app.model_initialized),
                          !.served = @ + 1]
    /\ UNCHANGED <<gvars, basev, splitRun, art, mrg, aud, build, jobs, single, segs>>

\* the code after yield: the application stops serving
LifespanShutdown ==
    /\ app.phase = "serving"
    /\ \A t \in Threads : pc[t] = "idle"
    /\ app' = [app EXCEPT !.phase = "stopped"]
    /\ UNCHANGED <<gvars, basev, splitRun, art, mrg, aud, build, jobs, single, segs>>

\* the process has started, lifespan has not run
InitStartup ==
    /\ app = [phase |-> "starting", model_initialized |-> "unset",
              health |-> "none", served |-> 0]
    /\ build = "new"
    /\ lock = 0 /\ ctx = 0 /\ lib = FALSE /\ nctx = 0 /\ freed = {} /\ forced = 0
    /\ pc = [t \in Threads |-> "unborn"]
    /\ calls = [t \in Threads |-> 0]
    /\ reinits = [t \in Threads |-> 0]
    /\ gres = [t \in Threads |-> "none"]
    /\ gtext = [t \in Threads |-> <<>>]
    /\ chunkEnabled = TRUE /\ prober = "runnable"
    /\ cs = <<>> /\ useTimeout = <<>> /\ dur = <<>> /\ tmp = <<>>
    /\ queue = <<>> /\ path = <<>> /\ akind = <<>>
    /\ tres = <<>> /\ ttext = <<>> /\ clist = <<>> /\ ci = <<>>
    /\ ctexts = <<>> /\ cfiles = <<>> /\ splitRun = <<>>
    /\ art = <<>> /\ mrg = <<>> /\ aud = <<>> /\ jobs = <<>>
    /\ single = <<>> /\ segs = <<>>

NextStartup ==
    \/ CheckModelSize
    \/ LoadLibraries
    \/ InitializeContext
    \/ LifespanStartup
    \/ HealthRequest
    \/ LifespanShutdown
    \/ \E t \in Threads : (app.phase = "serving" /\ StartCall(t))
    \/ (app.phase = "serving" /\ ForceCtxNull)
    \/ (app.phase = "serving" /\ ForceLibNull)
    \/ \E t \in Threads : Acquire(t)
    \/ \E t \in Threads : HealthCheck(t)
    \/ \E t \in Threads : Reinit(t)
    \/ \E t \in Threads : NativeReturn(t)
    \/ \E t \in Threads : CallReturn(t)

SpecStartup == InitStartup /\ [][NextStartup]_vars

\* C31: the application starts serving only from a completed construction
\* with a non-null context; when construction failed, startup fails and no
\* request or transcription call is ever served; the health endpoint answers
\* "healthy" only when model_initialized is true.
C31_ServingOnlyAfterConstruction ==
    /\ [][(app.phase # "serving" /\ app'.phase = "serving")
            => (build = "ready" /\ ctx # 0 /\ lib /\ app'.model_initialized = TRUE)]_vars
    /\ [](build \in BuildFailed
            => /\ app.phase \in {"starting", "failed"}
               /\ app.served = 0 /\ app.health = "none"
               /\ \A t \in DOMAIN pc : pc[t] = "unborn" /\ calls[t] = 0)
    /\ [][(app'.served # app.served \/ calls' # calls) => app.phase = "serving"]_vars
    /\ [](app.health = "healthy" => app.model_initialized = TRUE)
    /\ [](app.phase = "serving" => app.model_initialized = TRUE)

\* serving, the health endpoint has answered "healthy" and a call is in the
\* native code
C31_Witness ==
    /\ app.phase = "serving"
    /\ app.health = "healthy"
    /\ \E t \in DOMAIN pc : pc[t] = "infer"

(***************************************************************************)
(* SpecSingleton: NThreads threads call get_whisper_library_adapter in a   *)
(* process in which the module global _whisper_library_adapter is None.    *)
(* The function takes no lock; a thread can be switched out between the    *)
(* test of the global and the end of the constructor, which loads the      *)
(* shared libraries and the model.                                         *)
(***************************************************************************)
\* calls of get_whisper_library_adapter by one thread
MaxGets == 2

\* a thread calls get_whisper_library_adapter()
SingletonCall(t) ==
    /\ single.pc[t] = "idle"
    /\ single.gets[t] < MaxGets
    /\ single' = [single EXCEPT !.pc[t] = "check", !.gets[t] = @ + 1, !.got[t] = 0]
    /\ UNCHANGED <<gvars, basev, splitRun, art, mrg, aud, build, jobs, app, segs>>

\* if _whisper_library_adapter is None:
SingletonCheck(t) ==
    /\ single.pc[t] = "check"
    /\ single' = [single EXCEPT
                    !.pc[t] = IF single.inst = 0 THEN "construct" ELSE "return"]
    /\ UNCHANGED <<gvars, basev, splitRun, art, mrg, aud, build, jobs, app, segs>>

\* _whisper_library_adapter = WhisperLibraryAdapter(): the constructor ends;
\* its exception is logged and re-raised and the global stays as it was
SingletonConstruct(t) ==
    /\ single.pc[t] = "construct"
    /\ \E ok \in BOOLEAN :
         IF ok
         THEN single' = [single EXCEPT !.made = @ + 1, !.inst = single.made + 1,
                                       !.pc[t] = "return"]
         ELSE single' = [single EXCEPT !.pc[t] = "idle"]
    /\ UNCHANGED <<gvars, basev, splitRun, art, mrg, aud, build, jobs, app, segs>>

\* return _whisper_library_adapter
SingletonReturn(t) ==
    /\ single.pc[t] = "return"
    /\ single' = [single EXCEPT !.got[t] = single.inst, !.pc[t] = "idle"]
    /\ UNCHANGED <<gvars, basev, splitRun, art, mrg, aud, build, jobs, app, segs>>

\* module imported: the global is None, nobody has called
InitSingleton ==
    /\ single = [inst |-> 0, made |-> 0,
                 pc |-> [t \in Threads |-> "idle"],
                 got |-> [t \in Threads |-> 0],
                 gets |-> [t \in Threads |-> 0]]
    /\ lock = 0 /\ ctx = 0 /\ lib = FALSE /\ nctx = 0 /\ freed = {} /\ forced = 0
    /\ pc = <<>> /\ calls = <<>> /\ reinits = <<>> /\ gres = <<>> /\ gtext = <<>>
    /\ chunkEnabled = TRUE /\ prober = "runnable"
    /\ cs = <<>> /\ useTimeout = <<>> /\ dur = <<>> /\ tmp = <<>>
    /\ queue = <<>> /\ path = <<>> /\ akind = <<>>
    /\ tres = <<>> /\ ttext = <<>> /\ clist = <<>> /\ ci = <<>>
    /\ ctexts = <<>> /\ cfiles = <<>> /\ splitRun = <<>>
    /\ art = <<>> /\ mrg = <<>> /\ aud = <<>> /\ build = "new" /\ jobs = <<>>
    /\ app = <<>> /\ segs = <<>>

NextSingleton ==
    \/ \E t \in Threads : SingletonCall(t)
    \/ \E t \in Threads : SingletonCheck(t)
    \/ \E t \in Threads : SingletonConstruct(t)
    \/ \E t \in Threads : SingletonReturn(t)

SpecSingleton == InitSingleton /\ [][NextSingleton]_vars

\* C34: the adapter is constructed at most once in the process and every
\* caller is returned the same instance, also when the first calls are
\* concurrent.
C34_ConstructedOnce ==
    /\ single.made <= 1
    /\ \A t, u \in Threads :
         (single.got[t] # 0 /\ single.got[u] # 0) => single.got[t] = single.got[u]

(***************************************************************************)
(* SpecPool: NPool requests go through transcribe_from_url and the         *)
(* transcription executor; the call of transcribe in the worker thread is  *)
(* one step.                                                               *)
(***************************************************************************)
\* requests that share the executor
NPool == 3
PoolReqs == 1..NPool

\* self.transcriber.transcribe(...) runs in its worker thread and ends with
\* the text or with TranscriptionError
TranscribeRun(r) ==
    /\ pc[r] = "begin"
    /\ pc' = [pc EXCEPT ![r] = "t_done"]
    /\ \E res \in {"text", "transcription_failed"} :
         tres' = [tres EXCEPT ![r] = res]
    /\ UNCHANGED <<adapterv, callv, envv, cs, useTimeout, dur, tmp, queue, path,
                   akind, ttext, clist, ci, ctexts, cfiles>>

\* service started, executor idle, no request yet
InitPool ==
    /\ lock = 0 /\ ctx = 1 /\ lib = TRUE /\ nctx = 1 /\ freed = {} /\ forced = 0
    /\ pc = [r \in PoolReqs |-> "none"]
    /\ calls = [r \in PoolReqs |-> 0]
    /\ reinits = [r \in PoolReqs |-> 0]
    /\ gres = [r \in PoolReqs |-> "none"]
    /\ gtext = [r \in PoolReqs |-> <<>>]
    /\ chunkEnabled = TRUE /\ prober = "runnable"
    /\ cs = [r \in PoolReqs |-> "new"]
    /\ useTimeout = [r \in PoolReqs |-> FALSE]
    /\ dur = [r \in PoolReqs |-> 0]
    /\ tmp = [r \in PoolReqs |-> FALSE]
    /\ queue = <<>>
    /\ path = [r \in PoolReqs |-> "none"]
    /\ akind = [r \in PoolReqs |-> "none"]
    /\ tres = [r \in PoolReqs |-> "none"]
    /\ ttext = [r \in PoolReqs |-> <<>>]
    /\ clist = [r \in PoolReqs |-> <<>>]
    /\ ci = [r \in PoolReqs |-> 0]
    /\ ctexts = [r \in PoolReqs |-> <<>>]
    /\ cfiles = [r \in PoolReqs |-> {}]
    /\ splitRun = <<>>
    /\ art = <<>> /\ mrg = <<>> /\ aud = <<>> /\ build = "ready" /\ jobs = <<>>
    /\ app = <<>> /\ single = <<>> /\ segs = <<>>

NextPool ==
    \/ \E r \in PoolReqs : Request(r)
    \/ \E r \in PoolReqs : DownloadDone(r)
    \/ \E r \in PoolReqs : JobStart(r)
    \/ \E r \in PoolReqs : TranscribeRun(r)
    \/ \E r \in PoolReqs : Deliver(r)
    \/ \E r \in PoolReqs : Timeout(r)
    \/ \E r \in PoolReqs : Discard(r)

SpecPool == InitPool /\ [][NextPool]_vars

\* the work queue holds exactly the calls handed to the executor and not yet
\* taken by a worker, each once; a call is taken only by a free worker
QueueDiscipline ==
    /\ [](Cardinality(Running) <= MaxWorkers)
    /\ [](/\ \A i \in 1..Len(queue) : pc[queue[i]] = "queued"
          /\ \A r \in DOMAIN pc : pc[r] = "queued" => \E i \in 1..Len(queue) : queue[i] = r
          /\ \A i, k \in 1..Len(queue) : queue[i] = queue[k] => i = k)
    /\ [][\A r \in DOMAIN pc :
            (pc[r] = "queued" /\ pc'[r] = "begin")
               => (Cardinality(Running) < MaxWorkers /\ Head(queue) = r)]_vars
    /\ [][\A r \in DOMAIN pc :
            (pc[r] # "queued" /\ pc'[r] = "queued" /\ Cardinality(Running) = MaxWorkers)
               => Cardinality(Running') = MaxWorkers]_vars

\* C35 as amended: at most two transcriptions execute in worker threads; a
\* call handed to the executor while both workers are busy waits in the
\* queue and leaves it only by being started on a free worker or by being
\* cancelled when its caller's timeout elapses while it is still queued.
C35_QueuedUntilStartedOrCancelled ==
    /\ QueueDiscipline
    /\ [][\A r \in DOMAIN pc :
            pc[r] = "queued"
               => \/ pc'[r] \in {"queued", "begin"}
                  \/ (pc'[r] = "none" /\ useTimeout[r]
                        /\ cs[r] = "waiting" /\ cs'[r] = "timedout")]_vars

\* both workers are busy and a third transcription waits in the queue
C35_Witness ==
    /\ Cardinality(Running) = MaxWorkers
    /\ \E r \in DOMAIN pc : pc[r] = "queued" /\ r \notin Running

\* C35 as stated: a transcription that waits in the queue while both workers
\* are busy is started later and never dropped.
C35_NeverDropped ==
    /\ QueueDiscipline
    /\ [][\A r \in DOMAIN pc :
            (pc[r] = "queued" /\ Cardinality(Running) = MaxWorkers)
               => pc'[r] \in {"queued", "begin"}]_vars

(***************************************************************************)
(* Context guard: the handles at the native call (SpecGuard).              *)
(***************************************************************************)
\* C36: whisper_full is invoked only with a non-null context handle and a
\* loaded library handle, by the thread that holds the lock; a thread enters
\* the native call only from a health check that passed or from a recovery
\* that created a context, in the same hold of the lock.
C36_InferenceOnlyWithHandles ==
    /\ [](\A t \in DOMAIN pc : pc[t] = "infer" => (ctx # 0 /\ lib /\ lock = t))
    /\ [][\A t \in DOMAIN pc :
            (pc[t] # "infer" /\ pc'[t] = "infer")
               => /\ lock = t /\ lock' = t
                  /\ \/ (pc[t] = "health" /\ ctx # 0 /\ lib /\ reinits'[t] = 0)
                     \/ (pc[t] = "reinit" /\ lib /\ ctx' = nctx' /\ nctx' = nctx + 1
                           /\ ctx' \notin freed')]_vars
    /\ [][\A t \in DOMAIN pc :
            pc[t] \in {"health", "reinit", "infer"} => (ctx' = ctx \/ pc[t] = "reinit")]_vars

\* the handle was forced to null, the call recovered it and is now in the
\* native call while another thread waits for the lock
C36_Witness ==
    \E t, u \in DOMAIN pc :
        /\ t # u
        /\ pc[t] = "infer" /\ reinits[t] = 1 /\ forced > 0 /\ lock = t
        /\ pc[u] = "acquire"

(***************************************************************************)
(* SpecReadout: the guarded call with the native part in two steps, the    *)
(* call of whisper_full, which leaves its segments in the context, and the *)
(* read-out of the segments from the context.                              *)
(***************************************************************************)
\* the inference call a thread is in: the thread and the number of its call
CallId(t) == <<t, calls[t]>>

\* result = self.lib.whisper_full(self.ctx, ...): on 0 the segments of this
\* call are in the context; another code, or an exception, leaves the with
\* block as TranscriptionError
WhisperFull(t) ==
    /\ pc[t] = "infer"
    /\ \E ok \in BOOLEAN, txt \in NativeTexts :
         IF ok
         THEN /\ segs' = [segs EXCEPT !.of = ctx, !.owner = CallId(t), !.text = txt]
              /\ pc' = [pc EXCEPT ![t] = "read"]
              /\ UNCHANGED <<lock, gres, gtext>>
         ELSE /\ pc' = [pc EXCEPT ![t] = "ret"]
              /\ gres' = [gres EXCEPT ![t] = "infer_error"]
              /\ gtext' = [gtext EXCEPT ![t] = <<>>]
              /\ lock' = LockAfterExit(t, "infer_error")
              /\ segs' = segs
    /\ UNCHANGED <<ctx, lib, nctx, freed, forced, calls, reinits,
                   basev, splitRun, art, mrg, aud, build, jobs, app, single>>

\* whisper_full_n_segments(self.ctx) and whisper_full_get_segment_text(self.ctx, i):
\* the text is joined from what the context holds now, and returned
ReadSegments(t) ==
    /\ pc[t] = "read"
    /\ LET held == segs.of = ctx /\ ctx # 0 IN
         /\ gtext' = [gtext EXCEPT ![t] = IF held THEN segs.text ELSE <<>>]
         /\ segs' = [segs EXCEPT !.read[t] = IF held THEN segs.owner ELSE <<0, 0>>]
    /\ gres' = [gres EXCEPT ![t] = "ok"]
    /\ pc' = [pc EXCEPT ![t] = "ret"]
    /\ lock' = LockAfterExit(t, "ok")
    /\ UNCHANGED <<ctx, lib, nctx, freed, forced, calls, reinits,
                   basev, splitRun, art, mrg, aud, build, jobs, app, single>>

\* adapter constructed; the context holds no segments
InitReadout ==
    /\ segs = [of |-> 0, owner |-> <<0, 0>>, text |-> <<>>,
               read |-> [t \in Threads |-> <<0, 0>>]]
    /\ lock = 0 /\ ctx = 1 /\ lib = TRUE /\ nctx = 1 /\ freed = {} /\ forced = 0
    /\ pc = [t \in Threads |-> "idle"]
    /\ calls = [t \in Threads |-> 0]
    /\ reinits = [t \in Threads |-> 0]
    /\ gres = [t \in Threads |-> "none"]
    /\ gtext = [t \in Threads |-> <<>>]
    /\ chunkEnabled = TRUE /\ prober = "runnable"
    /\ cs = <<>> /\ useTimeout = <<>> /\ dur = <<>> /\ tmp = <<>>
    /\ queue = <<>> /\ path = <<>> /\ akind = <<>>
    /\ tres = <<>> /\ ttext = <<>> /\ clist = <<>> /\ ci = <<>>
    /\ ctexts = <<>> /\ cfiles = <<>> /\ splitRun = <<>>
    /\ art = <<>> /\ mrg = <<>> /\ aud = <<>> /\ build = "ready" /\ jobs = <<>>
    /\ app = <<>> /\ single = <<>>

NextReadout ==
    \/ \E t \in Threads : StartCall(t)
    \/ \E t \in Threads : Acquire(t)
    \/ \E t \in Threads : HealthCheck(t)
    \/ \E t \in Threads : Reinit(t)
    \/ \E t \in Threads : WhisperFull(t)
    \/ \E t \in Threads : ReadSegments(t)
    \/ \E t \in Threads : CallReturn(t)
    \/ ForceCtxNull
    \/ ForceLibNull

SpecReadout == InitReadout /\ [][NextReadout]_vars

\* threads between acquiring the lock and leaving the with block, read-out
\* included
InHold == {t \in DOMAIN pc : pc[t] \in {"health", "reinit", "infer", "read"}}

\* C37: health check, recovery, native call and read-out happen inside one
\* hold of the lock; a recovery never runs while another thread is in
\* recovery, in the native call or reading segments; and the segments a call
\* reads and returns are those its own whisper_full call left in the context.
C37_ReadoutInsideLock ==
    /\ [](\A t \in DOMAIN pc : t \in InHold => lock = t)
    /\ [](Cardinality(InHold) <= 1)
    /\ [][\A t \in DOMAIN pc :
            (t \in InHold /\ pc'[t] \in {"health", "reinit", "infer", "read"})
               => lock' = t]_vars
    /\ [][\A t \in DOMAIN pc :
            (pc[t] = "read" /\ pc'[t] = "ret")
               => /\ segs.owner = CallId(t)
                  /\ segs'.read[t] = CallId(t)
                  /\ gtext'[t] = segs.text
                  /\ gres'[t] = "ok"]_vars

\* a call is about to read its segments, from a context created by its own
\* recovery, while the other thread, which has read segments before, waits
\* for the lock
C37_Witness ==
    \E t, u \in DOMAIN pc :
        /\ t # u
        /\ pc[t] = "read" /\ reinits[t] = 1 /\ segs.of = ctx /\ ctx > 1
        /\ pc[u] = "acquire" /\ segs.read[u] # <<0, 0>>

(***************************************************************************)
(* SpecSplit: _split_audio from its boundary loop to the chunk files, for  *)
(* any integer settings (config.py puts no bound on WHISPER_CHUNK_DURATION *)
(* and WHISPER_CHUNK_OVERLAP) and durations from 0.                        *)
(***************************************************************************)
\* longest of the short audios
MaxLoopD == 12

\* (chunk_duration, overlap): overlap below, at and above the chunk length
LoopConfigs == SplitConfigs \cup {<<1, 0>>, <<1, 1>>, <<1, 3>>, <<2, 0>>, <<3, 1>>, <<5, 2>>}

\* settings and duration of a call: short audios under every setting, and an
\* audio long enough for the window cap under a chunk length of 1
LoopInputs ==
    {<<c, d>> : c \in LoopConfigs, d \in 0..MaxLoopD}
        \cup {<<c, 1005>> : c \in {<<1, 0>>, <<1, 1>>, <<1, 3>>}}

\* the for loop over the windows: a window shorter than MIN_CHUNK_DURATION
\* that is not the last is skipped, every other window is cut by ffmpeg into
\* its chunk file; a failing ffmpeg raises
Materialise ==
    /\ splitRun.stage = "merged"
    /\ \E ok \in BOOLEAN :
         splitRun' = [splitRun EXCEPT
                        !.stage = IF ok THEN "files" ELSE "failed",
                        !.kept = IF ok THEN KeptFrom(splitRun.chunks, 1) ELSE <<>>]
    /\ UNCHANGED <<gvars, pipev>>

\* settings as configured and an audio of some duration
InitSplit ==
    /\ splitRun \in {[stage |-> "settings", L |-> x[1][1], O |-> x[1][2], D |-> x[2],
                      verdict |-> "none", start |-> 0, chunks |-> <<>>, kept |-> <<>>] :
                        x \in LoopInputs}
    /\ lock = 0 /\ ctx = 1 /\ lib = TRUE /\ nctx = 1 /\ freed = {} /\ forced = 0
    /\ pc = <<>> /\ calls = <<>> /\ reinits = <<>> /\ gres = <<>> /\ gtext = <<>>
    /\ chunkEnabled = TRUE /\ prober = "runnable"
    /\ cs = <<>> /\ useTimeout = <<>> /\ dur = <<>> /\ tmp = <<>>
    /\ queue = <<>> /\ path = <<>> /\ akind = <<>>
    /\ tres = <<>> /\ ttext = <<>> /\ clist = <<>> /\ ci = <<>>
    /\ ctexts = <<>> /\ cfiles = <<>>
    /\ art = <<>> /\ mrg = <<>> /\ aud = <<>> /\ build = "ready" /\ jobs = <<>>
    /\ app = <<>> /\ single = <<>> /\ segs = <<>>

NextSplit ==
    \/ ValidateCall
    \/ SplitStart
    \/ SplitStep
    \/ SplitTail
    \/ Materialise

SpecSplit == InitSplit /\ [][NextSplit]_vars

\* _split_audio is straight-line code in one thread: once called, its loop
\* keeps being executed
FairSpecSplit == SpecSplit /\ WF_vars(SplitStep)

\* C38: the boundary loop terminates for every D >= 0, L > 0 and O >= 0,
\* also when O >= L: each iteration that goes on moves start forward and adds
\* one window, and the loop ends by reaching D, by the non-advance guard or
\* by the cap on the number of windows.
C38_BoundaryLoopTerminates ==
    /\ (splitRun.stage = "looping") ~> (splitRun.stage \in {"loop", "failed"})
    /\ [][(splitRun.stage = "looping" /\ splitRun'.stage = "looping")
            => /\ splitRun'.start > splitRun.start
               /\ Len(splitRun'.chunks) = Len(splitRun.chunks) + 1
               /\ Len(splitRun'.chunks) <= MaxChunks
               /\ splitRun'.start = splitRun'.chunks[Len(splitRun'.chunks)][2] - splitRun.O]_vars
    /\ [][(splitRun.stage = "looping" /\ splitRun'.stage = "loop")
            => LET n == Len(splitRun'.chunks) IN
               \/ (~(splitRun.start < splitRun.D) /\ n = Len(splitRun.chunks))
               \/ (n > 0 /\ splitRun'.chunks[n][2] >= splitRun.D)
               \/ (n > 0 /\ splitRun'.chunks[n][2] - splitRun.O <= splitRun.start)]_vars
    /\ [][(splitRun.stage = "looping" /\ splitRun'.stage = "failed")
            => Len(splitRun.chunks) + 1 > MaxChunks]_vars

\* the loop has ended by the non-advance guard under an overlap that is not
\* below the chunk length, before reaching the end of the audio
C38_Witness ==
    /\ splitRun.stage = "loop"
    /\ splitRun.O >= splitRun.L
    /\ Len(splitRun.chunks) = 1
    /\ splitRun.chunks[1][2] < splitRun.D

\* C39: for settings with O < L/2 and an audio with D > 0 the chunk files
\* written cover [0, D] without gaps: the first starts at 0, the last ends at
\* D, and each starts no later than the one before it ends.
C39_MaterialisedWindowsCover ==
    (splitRun.stage = "files" /\ 2 * splitRun.O < splitRun.L /\ splitRun.D > 0)
        => LET w == splitRun.chunks
               k == splitRun.kept
           IN  /\ k # <<>>
               /\ w[k[1]][1] = 0
               /\ w[k[Len(k)]][2] = splitRun.D
               /\ \A i \in 2..Len(k) : w[k[i]][1] <= w[k[i - 1]][2]

(***************************************************************************)
(* transcribe_from_url: the temp file and the worker thread (Spec).        *)
(***************************************************************************)
\* C40: the downloaded temp file of a request is on disk as long as the
\* transcribe call on it is executing in a worker thread; it is removed only
\* once that call has returned or raised.
C40_TempFileOutlivesWorker ==
    /\ [](\A r \in DOMAIN pc : r \in Running => tmp[r])
    /\ [][\A r \in DOMAIN pc :
            (tmp[r] /\ ~tmp'[r] /\ pc[r] # "queued")
               => (pc[r] = "t_done" \/ cs[r] = "download")]_vars

====
